---- MODULE Spec2Model ----
(***************************************************************************)
(* Resource manager back end: business rules (config.py and the per-       *)
(* employee overrides), employee reservations, project bookings and the    *)
(* availability computation that the booking admission check, the          *)
(* availability-range endpoint and the resources dashboard share, and the  *)
(* deletion of an employee.                                                *)
(*                                                                         *)
(* Units.  Hours and days are Python floats in the code.  The model keeps  *)
(* them exact: a stored quantity (hours per day, booked hours, days per    *)
(* month) is an integer number of HALF units, so 12 is 6.0 and 15 is 7.5.  *)
(* A computed quantity (pro-rated hours, available hours) is a rational    *)
(* whose denominator divides WdLcm; it is kept as the numerator over       *)
(* WdLcm, still in half hours.  Floating-point rounding is not modelled.   *)
(*                                                                         *)
(* Dates.  A date is its day number in 2024, 1 = 2024-01-01, a Monday.     *)
(* ISO date strings compare like the day numbers, which is what the SQL    *)
(* comparisons of the code rely on.                                        *)
(***************************************************************************)
EXTENDS Integers, Sequences, FiniteSets, TLC

VARIABLES config, rules, employees, projects, reservations, nextResId,
          bookings, audit, req, last, cleared, schedules, schema

vars == <<config, rules, employees, projects, reservations, nextResId,
          bookings, audit, req, last, cleared, schedules, schema>>

(***************************************************************************)
(* Bounds                                                                  *)
(***************************************************************************)
\* last date of the modelled calendar; the first one is 4 (Thu 2024-01-04),
\* so that the range holds working days around the Fri/Sat weekend
MaxDate == 7

\* number of rows employee_reservations may ever receive (AUTOINCREMENT ids)
MaxRes == 2

\* last day of the wide calendar of SpecCal, whose first day is 1 (Mon
\* 2024-01-01): a week and a half, so that a range holds a whole weekend
MaxDay == 10

\* last month of the schedule rows the dashboard goes through, of the 12 an
\* employee has for the year
MaxMonth == 3

Dates == 4..MaxDate

\* the employees with a row in employees
EmployeeIds == {1, 2}

Ranges == {r \in Dates \X Dates : r[1] <= r[2]}

(***************************************************************************)
(* Arithmetic helpers                                                      *)
(***************************************************************************)
Max(a, b) == IF a >= b THEN a ELSE b

Min(a, b) == IF a <= b THEN a ELSE b

RECURSIVE Gcd(_, _)
Gcd(a, b) == IF b = 0 THEN a ELSE Gcd(b, a % b)

RECURSIVE LcmUpTo(_)
LcmUpTo(n) == IF n <= 1 THEN 1 ELSE LET l == LcmUpTo(n - 1) IN (l * n) \div Gcd(l, n)

\* common denominator of every pro-rating quotient: a booking has at most
\* one working day per calendar day of the modelled ranges
WdLcm == LcmUpTo(Max(MaxDate, MaxDay))

\* Python int() of a float kept in halves: truncation toward zero
PyInt(x) == IF x >= 0 THEN (x \div 2) * 2 ELSE 0 - (((0 - x) \div 2) * 2)

\* nullable column: {} is NULL, {v} is the value v
Null == {}

Val(x) == CHOOSE v \in x : TRUE

(***************************************************************************)
(* config.py: the text of the three business-rule assignments              *)
(*                                                                         *)
(* The code reads and rewrites config.py with regular expressions, so the  *)
(* state is the text after "NAME = ", kept as tokens: a maximal run of     *)
(* digits (its value) or a dot.  "7" is <<Num(7)>>, "7.5" is               *)
(* <<Num(7), Dot, Num(5)>>.                                                *)
(***************************************************************************)
Num(n) == [k |-> "num", v |-> n]

Dot == [k |-> "dot", v |-> 0]

IsNum(text, i) == i <= Len(text) /\ text[i].k = "num"

IsDot(text, i) == i <= Len(text) /\ text[i].k = "dot"

\* a Python number handed to update_settings: an int, or a float on the
\* half grid; h is its value in halves
PyNumber(isFloat, h) == [float |-> isFloat, h |-> h]

\* str(value) as the f-string of update_settings writes it: "7", "7.5", "20.0"
PyStr(n) ==
    IF n.float
    THEN <<Num(n.h \div 2), Dot, Num(IF n.h % 2 = 1 THEN 5 ELSE 0)>>
    ELSE <<Num(n.h \div 2)>>

\* length of the match of \d+ at the start of the text, 0 when none
MatchInt(text) == IF IsNum(text, 1) THEN 1 ELSE 0

\* length of the match of \d+\.?\d* at the start of the text, 0 when none
MatchFloat(text) ==
    IF ~IsNum(text, 1) THEN 0
    ELSE IF ~IsDot(text, 2) THEN 1
    ELSE IF IsNum(text, 3) THEN 3 ELSE 2

\* float() of the matched text "i", "i." or "i.f" (f is 0 or 5), in halves
ParseFloat(text, n) ==
    2 * text[1].v + (IF n = 3 /\ text[3].v = 5 THEN 1 ELSE 0)

\* mutant: re.sub of the leading digits only, whatever the pattern matched
SubPrefix_LeadingDigits(text, n, value) ==
    IF n = 0 THEN text ELSE PyStr(value) \o SubSeq(text, 2, Len(text))

\* re.sub of the matched prefix by str(value); no match leaves the text alone
SubPrefix(text, n, value) ==
    IF n = 0 THEN text ELSE PyStr(value) \o SubSeq(text, n + 1, Len(text))

\* the fallbacks of get_settings when a pattern does not match
DefaultWorkHours == 7

DefaultMonths == 12

\* 18.333333333 in the code; the nearest value of the half grid
DefaultWorkDaysHalves == 37

\* config.py as shipped
ShippedWorkHours == 6

ShippedWorkDays == 20

ShippedMonths == 12

ShippedConfig ==
    [work_hours_per_day |-> <<Num(ShippedWorkHours)>>,
     work_days_per_month |-> <<Num(ShippedWorkDays)>>,
     months_in_year |-> <<Num(ShippedMonths)>>]

SettingsFields == {"work_hours_per_day", "work_days_per_month", "months_in_year"}

\* SettingsController.get_settings: hours and days in halves, months a count
get_settings(cfg) ==
    [work_hours_per_day |->
        IF MatchInt(cfg.work_hours_per_day) > 0
        THEN 2 * cfg.work_hours_per_day[1].v
        ELSE 2 * DefaultWorkHours,
     work_days_per_month |->
        IF MatchFloat(cfg.work_days_per_month) > 0
        THEN ParseFloat(cfg.work_days_per_month, MatchFloat(cfg.work_days_per_month))
        ELSE DefaultWorkDaysHalves,
     months_in_year |->
        IF MatchInt(cfg.months_in_year) > 0
        THEN cfg.months_in_year[1].v
        ELSE DefaultMonths]

\* SettingsController.get_work_hours_per_day: the GLOBAL hours per day
get_work_hours_per_day(cfg) == get_settings(cfg).work_hours_per_day

\* the text of config.py after update_settings(s); s maps the fields it
\* holds to Python numbers
UpdatedConfig(cfg, s) ==
    [work_hours_per_day |->
        IF "work_hours_per_day" \in DOMAIN s
        THEN SubPrefix(cfg.work_hours_per_day, MatchInt(cfg.work_hours_per_day),
                       s["work_hours_per_day"])
        ELSE cfg.work_hours_per_day,
     work_days_per_month |->
        IF "work_days_per_month" \in DOMAIN s
        THEN SubPrefix(cfg.work_days_per_month, MatchFloat(cfg.work_days_per_month),
                       s["work_days_per_month"])
        ELSE cfg.work_days_per_month,
     months_in_year |->
        IF "months_in_year" \in DOMAIN s
        THEN SubPrefix(cfg.months_in_year, MatchInt(cfg.months_in_year),
                       s["months_in_year"])
        ELSE cfg.months_in_year]

(***************************************************************************)
(* employee_business_rules: at most one row per employee (UNIQUE);         *)
(* rules[e] is {} without a row and {row} with one.  A row's columns are   *)
(* nullable: work_hours_per_day and work_days_per_month REAL (halves),     *)
(* months_in_year INTEGER.                                                 *)
(***************************************************************************)
RuleRow(h, d, m) ==
    [work_hours_per_day |-> h, work_days_per_month |-> d, months_in_year |-> m]

\* SettingsController.get_settings_for_employee
get_settings_for_employee(cfg, rls, e) ==
    LET global_settings == get_settings(cfg) IN
    IF rls[e] = {} THEN global_settings
    ELSE LET row == Val(rls[e]) IN
         [work_hours_per_day |->
            IF row.work_hours_per_day # Null
            THEN PyInt(Val(row.work_hours_per_day))
            ELSE global_settings.work_hours_per_day,
          work_days_per_month |->
            IF row.work_days_per_month # Null
            THEN Val(row.work_days_per_month)
            ELSE global_settings.work_days_per_month,
          months_in_year |->
            IF row.months_in_year # Null
            THEN Val(row.months_in_year)
            ELSE global_settings.months_in_year]

\* the row set_employee_business_rules leaves for e; r maps the fields it
\* holds to values (UPDATE of the given columns, or INSERT with NULLs)
RulesAfterSet(rls, e, r) ==
    LET Given(f) == IF f \in DOMAIN r THEN {r[f]} ELSE Null
        old == Val(rls[e])
        Kept(f) == IF f \in DOMAIN r THEN {r[f]} ELSE old[f]
    IN  IF rls[e] # {}
        THEN [rls EXCEPT ![e] =
                {RuleRow(Kept("work_hours_per_day"), Kept("work_days_per_month"),
                         Kept("months_in_year"))}]
        ELSE [rls EXCEPT ![e] =
                {RuleRow(Given("work_hours_per_day"), Given("work_days_per_month"),
                         Given("months_in_year"))}]

\* DELETE FROM employee_business_rules WHERE employee_id = e
RulesAfterDelete(rls, e) == [rls EXCEPT ![e] = {}]

\* the employees whose full_name is one of target_employees of
\* _run_migrations
SeededEmployees == {1}

\* the row _run_migrations inserts: 7 hours, 5.2388 days (5.0 is the nearest
\* value of the half grid), 12 months
SeedWorkHours == 7

SeedWorkDaysHalves == 10

SeedMonths == 12

\* the seeding loop of _run_migrations: a named employee without a row gets
\* the seed row
run_migrations(rls, emps) ==
    [e \in DOMAIN rls |->
        IF e \in SeededEmployees \cap emps /\ rls[e] = {}
        THEN {RuleRow({2 * SeedWorkHours}, {SeedWorkDaysHalves}, {SeedMonths})}
        ELSE rls[e]]

(***************************************************************************)
(* Calendar                                                                *)
(***************************************************************************)
\* date.weekday(): Monday is 0 ... Sunday is 6; day 1 is a Monday
weekday(d) == (d - 1) % 7

\* "if current.weekday() not in (4, 5)": Friday and Saturday
Weekend == {4, 5}

\* mutant: five working days for each whole week of the range
count_working_days_WholeWeeks(start, end) ==
    (end - start + 1) - 2 * ((end - start + 1) \div 7)

\* count_working_days of book_employee_for_project; 0 when end < start
count_working_days(start, end) ==
    Cardinality({d \in start..end : weekday(d) \notin Weekend})

\* count_working_days of the availability-range endpoint
count_working_days_range(start_date, end_date) ==
    Cardinality({d \in start_date..end_date : weekday(d) \notin Weekend})

\* mutant: the filter without its third clause (a row inside the window)
SqlOverlap_TwoClauses(rs, re, s, e) ==
    \/ rs <= s /\ re >= s
    \/ rs <= e /\ re >= e

\* mutant: the filter with its first clause only (a row that holds s)
SqlOverlap_HoldsStart(rs, re, s, e) == rs <= s /\ re >= s

\* the three-clause date filter of the SQL queries: a row [rs, re] is
\* selected for the window [s, e] when it holds s, holds e, or lies inside
SqlOverlap(rs, re, s, e) ==
    \/ rs <= s /\ re >= s
    \/ rs <= e /\ re >= e
    \/ rs >= s /\ re <= e

\* closed ranges [a1, a2] and [b1, b2] share a date
Intersects(a1, a2, b1, b2) == a1 <= b2 /\ b1 <= a2

RECURSIVE SumFn(_, _)
SumFn(f, S) ==
    IF S = {} THEN 0
    ELSE LET x == CHOOSE y \in S : TRUE IN f[x] + SumFn(f, S \ {x})

\* round(x, 1) of a computed quantity num / WdLcm half hours, as tenths of
\* an hour; exact ties go to the even tenth
Round1(num) ==
    LET n == 5 * num
        q == n \div WdLcm
        r == n % WdLcm
    IN  IF 2 * r < WdLcm THEN q
        ELSE IF 2 * r > WdLcm THEN q + 1
        ELSE IF q % 2 = 0 THEN q ELSE q + 1

(***************************************************************************)
(* Stores                                                                  *)
(*   reservations: rows of employee_reservations                           *)
(*     [id, employee_id, start_date, end_date, reserved_hours_per_day,     *)
(*      status]                                                            *)
(*   bookings: rows of project_bookings                                    *)
(*     [id, project_id, employee_id, start_date, end_date, booked_hours,   *)
(*      status]                                                            *)
(***************************************************************************)
ReservationRow(id, e, s, t, h, st) ==
    [id |-> id, employee_id |-> e, start_date |-> s, end_date |-> t,
     reserved_hours_per_day |-> h, status |-> st]

BookingRow(id, p, e, s, t, h, st) ==
    [id |-> id, project_id |-> p, employee_id |-> e, start_date |-> s,
     end_date |-> t, booked_hours |-> h, status |-> st]


(***************************************************************************)
(* The schema of the database file: the tables it holds, each with the     *)
(* columns and the constraint texts of its CREATE TABLE statement          *)
(***************************************************************************)
TableNames ==
    {"users", "employees", "employee_schedules", "employee_reservations",
     "projects", "project_bookings", "audit_log", "employee_business_rules"}

\* the text _run_migrations looks for in the statement of an old
\* employee_reservations table, and in that of an old employee_schedules
OldHoursCheck == "reserved_hours_per_day <= 6"

GeneratedColumn == "GENERATED ALWAYS AS"

\* the columns of the CREATE TABLE IF NOT EXISTS statements of
\* _create_tables
CreatedColumns ==
    [t \in TableNames |->
        CASE t = "users" ->
               {"id", "username", "password_hash", "role", "full_name", "department",
                "created_at", "updated_at"}
          [] t = "employees" ->
               {"id", "full_name", "department", "position", "line_manager_id",
                "total_hours_per_day", "status", "created_at", "updated_at"}
          [] t = "employee_schedules" ->
               {"id", "employee_id", "month", "year", "reserved_hours_per_day",
                "created_at", "updated_at"}
          [] t = "employee_reservations" ->
               {"id", "employee_id", "start_date", "end_date",
                "reserved_hours_per_day", "reason", "status", "created_at",
                "updated_at"}
          [] t = "projects" ->
               {"id", "project_code", "name", "business_unit", "description",
                "status", "progress", "solution_architect_id", "start_date",
                "end_date", "priority", "attachments", "created_at", "updated_at"}
          [] t = "project_bookings" ->
               {"id", "project_id", "employee_id", "start_date", "end_date",
                "booked_hours", "status", "created_at", "updated_at"}
          [] t = "audit_log" ->
               {"id", "user_id", "action", "table_name", "record_id", "changes",
                "timestamp"}
          [] OTHER ->
               {"id", "employee_id", "work_hours_per_day", "work_days_per_month",
                "months_in_year", "created_at", "updated_at"}]

\* the columns the ALTER TABLE statements of _run_migrations add, in the
\* order of the code
AddedColumns ==
    << <<"projects", "business_unit">>, <<"projects", "priority">>,
       <<"projects", "business_analyst_id">>, <<"project_bookings", "role">> >>

\* PRAGMA table_info(t): the columns of t, none for a table that is not
\* there
table_info(sc, t) == IF t \in DOMAIN sc THEN sc[t] ELSE {}

MigrationResult(status, sc) == [status |-> status, schema |-> sc]

\* step k of _run_migrations on schema sc: the rebuild of an old
\* employee_reservations (1) and of an old employee_schedules (2), the four
\* ALTER TABLE ... ADD COLUMN (3 to 6), the department rename, which reads
\* employees (7), and the creation and seeding of employee_business_rules,
\* which reads employees (8).  A statement on a table that is not there
\* raises sqlite3.OperationalError.
MigrationStep(sc, k) ==
    IF k = 1
    THEN MigrationResult("ok",
            IF "employee_reservations" \in DOMAIN sc
                  /\ OldHoursCheck \in sc["employee_reservations"]
            THEN [sc EXCEPT !["employee_reservations"] =
                                CreatedColumns["employee_reservations"]]
            ELSE sc)
    ELSE IF k = 2
    THEN MigrationResult("ok",
            IF "employee_schedules" \in DOMAIN sc
                  /\ GeneratedColumn \in sc["employee_schedules"]
            THEN [sc EXCEPT !["employee_schedules"] =
                                CreatedColumns["employee_schedules"]]
            ELSE sc)
    ELSE IF k \in 3..6
    THEN LET t == AddedColumns[k - 2][1]
             column == AddedColumns[k - 2][2]
         IN  IF column \in table_info(sc, t) THEN MigrationResult("ok", sc)
             ELSE IF t \notin DOMAIN sc THEN MigrationResult("OperationalError", sc)
             ELSE MigrationResult("ok", [sc EXCEPT ![t] = @ \cup {column}])
    ELSE IF k = 7
    THEN MigrationResult(IF "employees" \in DOMAIN sc THEN "ok"
                         ELSE "OperationalError", sc)
    ELSE MigrationResult("ok",
            [t \in DOMAIN sc \cup {"employee_business_rules"} |->
                IF t \in DOMAIN sc THEN sc[t] ELSE CreatedColumns[t]])

MigrationSteps == 8

\* _run_migrations from step k on: the steps in order, up to the first that
\* raises; what the steps before it committed stays
RECURSIVE migrate_schema_from(_, _)
migrate_schema_from(sc, k) ==
    IF k > MigrationSteps THEN MigrationResult("ok", sc)
    ELSE LET r == MigrationStep(sc, k)
         IN  IF r.status = "ok" THEN migrate_schema_from(r.schema, k + 1) ELSE r

\* the schema after _run_migrations, or the error of its first failing step
migrate_schema(sc) == migrate_schema_from(sc, 1)

\* the CREATE TABLE IF NOT EXISTS statements of _create_tables
create_tables(sc) ==
    [t \in TableNames |-> IF t \in DOMAIN sc THEN sc[t] ELSE CreatedColumns[t]]

\* Database._init_db on a file with schema sc: _create_tables runs the
\* migrations first, then creates the tables that are missing
init_db(sc) ==
    LET migrated == migrate_schema(sc)
    IN  IF migrated.status = "ok"
        THEN MigrationResult("ok", create_tables(migrated.schema))
        ELSE migrated

\* the schema of a database file of the current version that the
\* application has been started on
MigratedSchema ==
    [t \in TableNames |->
        CreatedColumns[t]
          \cup {AddedColumns[k][2] : k \in {j \in DOMAIN AddedColumns :
                                              AddedColumns[j][1] = t}}]

\* schedules: the rows of employee_schedules of the year 2024, one per
\* employee and month (UNIQUE)
ScheduleRow(e, month, h) ==
    [employee_id |-> e, month |-> month, reserved_hours_per_day |-> h]

\* the schedule rows of the months the model goes through
Months == 1..MaxMonth

\* Employee.initialize_schedule: a row with 0 reserved hours for each month
\* when the employee has no row of the year
initialize_schedule(sch, e) ==
    IF \E r \in sch : r.employee_id = e THEN sch
    ELSE sch \cup {ScheduleRow(e, m, 0) : m \in Months}

\* mutant: the query without "pb.status != 'cancelled'"
ExistingBookings_WithCancelled(bks, prj, e, s, t) ==
    {b \in bks : /\ b.employee_id = e
                 /\ b.project_id \in prj
                 /\ SqlOverlap(b.start_date, b.end_date, s, t)}

\* the bookings query of book_employee_for_project (JOIN projects, not
\* cancelled, coarse date filter)
ExistingBookings(bks, prj, e, s, t) ==
    {b \in bks : /\ b.employee_id = e
                 /\ b.project_id \in prj
                 /\ b.status # "cancelled"
                 /\ SqlOverlap(b.start_date, b.end_date, s, t)}

\* mutant: the query without "status = 'active'"
get_active_reservations_AnyStatus(res, e, s, t) ==
    {r \in res : /\ r.employee_id = e
                 /\ SqlOverlap(r.start_date, r.end_date, s, t)}

\* EmployeeReservation.get_active_reservations_for_date_range
get_active_reservations_for_date_range(res, e, s, t) ==
    {r \in res : /\ r.employee_id = e
                 /\ r.status = "active"
                 /\ SqlOverlap(r.start_date, r.end_date, s, t)}

\* mutant: the hours per day taken over the calendar days of the booking
BookingOverlapHours_PerCalendarDay(b, s, t) ==
    LET overlap_start == Max(s, b.start_date)
        overlap_end == Min(t, b.end_date)
    IN  IF overlap_start <= overlap_end
        THEN ((b.booked_hours * WdLcm) \div (b.end_date - b.start_date + 1))
                * count_working_days(overlap_start, overlap_end)
        ELSE 0

\* the pro-rating loop body of book_employee_for_project for one booking:
\* booked_hours / booking working days * overlap working days, over WdLcm
BookingOverlapHours(b, s, t) ==
    LET overlap_start == Max(s, b.start_date)
        overlap_end == Min(t, b.end_date)
        overlap_working_days == count_working_days(overlap_start, overlap_end)
        booking_total_working_days == count_working_days(b.start_date, b.end_date)
    IN  IF overlap_start <= overlap_end /\ booking_total_working_days > 0
        THEN ((b.booked_hours * WdLcm) \div booking_total_working_days)
                * overlap_working_days
        ELSE 0

\* the reservation loop body of book_employee_for_project, over WdLcm
ReservationOverlapHours(r, s, t) ==
    LET overlap_start == Max(s, r.start_date)
        overlap_end == Min(t, r.end_date)
    IN  IF overlap_start <= overlap_end
        THEN r.reserved_hours_per_day * count_working_days(overlap_start, overlap_end)
                * WdLcm
        ELSE 0

\* mutant: the difference without the floor
available_hours_NoFloor(total_max_hours, total_utilized_hours) ==
    total_max_hours * WdLcm - total_utilized_hours

\* "available_hours = max(0, total_max_hours - total_utilized_hours)" of
\* book_employee_for_project, over WdLcm
available_hours(total_max_hours, total_utilized_hours) ==
    Max(0, total_max_hours * WdLcm - total_utilized_hours)

\* the divisors of the divisions lines 136-151 execute: the working days of
\* each selected booking that overlaps the window, under the test of line
\* 148
AdmissionDivisors(bks, prj, e, s, t) ==
    {count_working_days(b.start_date, b.end_date) :
        b \in {x \in ExistingBookings(bks, prj, e, s, t) :
                 /\ Max(s, x.start_date) <= Min(t, x.end_date)
                 /\ count_working_days(x.start_date, x.end_date) > 0}}

\* lines 111-171 of book_employee_for_project: the capacity of the window
\* [s, t] for employee e and what is left of it
AdmissionAvailability(cfg, rls, res, bks, prj, e, s, t) ==
    LET total_working_days == count_working_days(s, t)
        max_hours_per_day == get_settings_for_employee(cfg, rls, e).work_hours_per_day
        total_max_hours == total_working_days * max_hours_per_day
        existing == ExistingBookings(bks, prj, e, s, t)
        perBooking == [i \in {b.id : b \in existing} |->
                         BookingOverlapHours(CHOOSE b \in existing : b.id = i, s, t)]
        total_booked_hours == SumFn(perBooking, DOMAIN perBooking)
        active == get_active_reservations_for_date_range(res, e, s, t)
        perReservation == [i \in {r.id : r \in active} |->
                         ReservationOverlapHours(CHOOSE r \in active : r.id = i, s, t)]
        total_reserved_hours == SumFn(perReservation, DOMAIN perReservation)
        total_utilized_hours == total_booked_hours + total_reserved_hours
    IN  [working_days |-> total_working_days,
         max_hours_per_day |-> max_hours_per_day,
         total_max_hours |-> total_max_hours,
         per_booking |-> perBooking,
         total_booked_hours |-> total_booked_hours,
         total_reserved_hours |-> total_reserved_hours,
         total_utilized_hours |-> total_utilized_hours,
         available_hours |-> available_hours(total_max_hours, total_utilized_hours)]

(***************************************************************************)
(* Responses.  last is the response of the most recent call: the operation *)
(* and its outcome.                                                        *)
(***************************************************************************)
Response(op, result) == [op |-> op, result |-> result]

NoResponse == Response("none", "none")

(***************************************************************************)
(* Reservations: reservation_routes.py over models/reservation.py          *)
(***************************************************************************)
\* the overlap query of EmployeeReservation.create
OverlappingActive(res, e, s, t) ==
    {r \in res : /\ r.employee_id = e
                 /\ r.status = "active"
                 /\ SqlOverlap(r.start_date, r.end_date, s, t)}

\* the outcome of EmployeeReservation.create, in the order of its checks
CreateOutcome(cfg, res, e, s, t, h) ==
    IF t < s THEN "invalid_range"
    ELSE IF h < 0 \/ h > get_work_hours_per_day(cfg) THEN "out_of_range"
    ELSE IF OverlappingActive(res, e, s, t) # {} THEN "overlap"
    ELSE "ok"

\* POST /api/employees/{e}/reservations
CreateReservation(e, s, t, h) ==
    LET outcome == IF e \notin employees THEN "not_found"
                   ELSE CreateOutcome(config, reservations, e, s, t, h)
    IN  /\ outcome = "ok" => nextResId <= MaxRes
        /\ reservations' =
              IF outcome = "ok"
              THEN reservations \cup {ReservationRow(nextResId, e, s, t, h, "active")}
              ELSE reservations
        /\ nextResId' = IF outcome = "ok" THEN nextResId + 1 ELSE nextResId
        /\ last' = Response("create_reservation", outcome)
        /\ UNCHANGED <<schema, config, rules, employees, projects, bookings, audit, schedules, req, cleared>>

\* the row EmployeeReservation.update writes for the given fields
UpdatedRow(r, kw) ==
    [r EXCEPT
       !.start_date = IF "start_date" \in DOMAIN kw THEN kw["start_date"] ELSE @,
       !.end_date = IF "end_date" \in DOMAIN kw THEN kw["end_date"] ELSE @,
       !.reserved_hours_per_day =
            IF "reserved_hours_per_day" \in DOMAIN kw
            THEN kw["reserved_hours_per_day"] ELSE @,
       !.status = IF "status" \in DOMAIN kw THEN kw["status"] ELSE @]

\* the CHECK constraints of employee_reservations
ReservationChecks(r) ==
    /\ r.reserved_hours_per_day >= 0
    /\ r.status \in {"active", "cancelled"}
    /\ r.end_date >= r.start_date

\* the outcome of EmployeeReservation.update on row r
UpdateOutcome(cfg, r, kw) ==
    IF /\ "reserved_hours_per_day" \in DOMAIN kw
       /\ \/ kw["reserved_hours_per_day"] < 0
          \/ kw["reserved_hours_per_day"] > get_work_hours_per_day(cfg)
    THEN "out_of_range"
    ELSE IF ~ReservationChecks(UpdatedRow(r, kw)) THEN "db_error"
    ELSE "ok"

\* the outcome of the route's lookups, before the handler acts on the row
LookupOutcome(res, e, id) ==
    IF ~\E r \in res : r.id = id THEN "not_found"
    ELSE IF (CHOOSE r \in res : r.id = id).employee_id # e THEN "forbidden"
    ELSE "found"

\* PUT /api/employees/{e}/reservations/{id}
UpdateReservation(e, id, kw) ==
    LET found == LookupOutcome(reservations, e, id)
        r == CHOOSE x \in reservations : x.id = id
        outcome == IF found # "found" THEN found ELSE UpdateOutcome(config, r, kw)
    IN  /\ reservations' =
              IF outcome = "ok"
              THEN (reservations \ {r}) \cup {UpdatedRow(r, kw)}
              ELSE reservations
        /\ last' = Response("update_reservation", outcome)
        /\ UNCHANGED <<schema, config, rules, employees, projects, nextResId, bookings,
                       audit, schedules, req, cleared>>

\* POST /api/employees/{e}/reservations/{id}/cancel
CancelReservation(e, id) ==
    LET found == LookupOutcome(reservations, e, id)
        r == CHOOSE x \in reservations : x.id = id
        kw == [f \in {"status"} |-> "cancelled"]
        outcome == IF found # "found" THEN found ELSE UpdateOutcome(config, r, kw)
    IN  /\ reservations' =
              IF outcome = "ok"
              THEN (reservations \ {r}) \cup {UpdatedRow(r, kw)}
              ELSE reservations
        /\ last' = Response("cancel_reservation", outcome)
        /\ UNCHANGED <<schema, config, rules, employees, projects, nextResId, bookings,
                       audit, schedules, req, cleared>>

\* DELETE /api/employees/{e}/reservations/{id}
DeleteReservation(e, id) ==
    LET found == LookupOutcome(reservations, e, id)
        outcome == IF found # "found" THEN found ELSE "ok"
    IN  /\ reservations' =
              IF outcome = "ok"
              THEN {r \in reservations : r.id # id}
              ELSE reservations
        /\ last' = Response("delete_reservation", outcome)
        /\ UNCHANGED <<schema, config, rules, employees, projects, nextResId, bookings,
                       audit, schedules, req, cleared>>

\* no request in hand
IdleRequest == [pc |-> "idle", args |-> <<>>, locals |-> <<>>, seen |-> {}]

(***************************************************************************)
(* Business rules: settings_controller.py                                  *)
(***************************************************************************)
\* SettingsController.update_settings(s); returns get_settings()
UpdateSettings(s) ==
    /\ config' = UpdatedConfig(config, s)
    /\ last' = Response("update_settings", get_settings(config'))
    /\ UNCHANGED <<schema, rules, employees, projects, reservations, nextResId, bookings,
                   audit, schedules, req, cleared>>

\* SettingsController.get_settings()
GetSettings ==
    /\ last' = Response("get_settings", get_settings(config))
    /\ UNCHANGED <<schema, config, rules, employees, projects, reservations, nextResId,
                   bookings, audit, schedules, req, cleared>>

\* SettingsController.get_settings_for_employee(e)
GetSettingsForEmployee(e) ==
    /\ last' = Response("get_settings_for_employee",
                        [employee_id |-> e,
                         settings |-> get_settings_for_employee(config, rules, e)])
    /\ UNCHANGED <<schema, config, rules, employees, projects, reservations, nextResId,
                   bookings, audit, schedules, req, cleared>>

\* SettingsController.set_employee_business_rules(e, r).  cleared[e] is
\* history: "no" until a delete, then "row" or "empty" (whether the delete
\* found a row) until the next set
SetEmployeeBusinessRules(e, r) ==
    /\ rules' = RulesAfterSet(rules, e, r)
    /\ cleared' = [cleared EXCEPT ![e] = "no"]
    /\ last' = Response("set_employee_business_rules", rules'[e])
    /\ UNCHANGED <<schema, config, employees, projects, reservations, nextResId, bookings,
                   audit, schedules, req>>

\* SettingsController.delete_employee_business_rules(e)
DeleteEmployeeBusinessRules(e) ==
    /\ rules' = RulesAfterDelete(rules, e)
    /\ cleared' = [cleared EXCEPT ![e] = IF rules[e] = {} THEN "empty" ELSE "row"]
    /\ last' = Response("delete_employee_business_rules", e)
    /\ UNCHANGED <<schema, config, employees, projects, reservations, nextResId, bookings,
                   audit, schedules, req>>

\* the server process starts again over the same database file and
\* config.py: "db = Database()" runs _run_migrations, and the requests in
\* hand are gone
Restart ==
    /\ rules' = run_migrations(rules, employees)
    /\ req' = [p \in DOMAIN req |-> IdleRequest]
    /\ UNCHANGED <<schema, config, employees, projects, reservations, nextResId, bookings,
                   audit, schedules, last, cleared>>

(***************************************************************************)
(* Booking admission: POST /{project_id}/bookings                          *)
(*   req[p] is the request worker p is handling: its position (pc), the    *)
(*   request body (args), and the local variables of the capacity check    *)
(*   (locals) with the bookings table as the check read it (seen).         *)
(***************************************************************************)
BookingArgs(project_id, e, s, t, h) ==
    [project_id |-> project_id, employee_id |-> e, start_date |-> s,
     end_date |-> t, booked_hours |-> h]

\* the validators of BookingRequest: end_date >= start_date, booked_hours > 0
BookingRequestValid(a) == a.end_date >= a.start_date /\ a.booked_hours > 0

\* the parameters of Project.add_booking besides self, and those without a
\* default
AddBookingParams == {"employee_id", "month", "year", "booked_hours", "booking_date"}

AddBookingRequired == {"employee_id", "month", "year", "booked_hours"}

\* the keywords of the call project.add_booking(...) in
\* book_employee_for_project
AddBookingCallKeywords ==
    {"employee_id", "start_date", "end_date", "booked_hours", "role"}

\* the columns of project_bookings
BookingColumns ==
    {"id", "project_id", "employee_id", "start_date", "end_date", "booked_hours",
     "role", "status", "created_at", "updated_at"}

\* the columns the statements of Project.add_booking name
AddBookingColumns ==
    {"id", "project_id", "employee_id", "month", "year", "booked_hours",
     "booking_date", "updated_at", "status"}

\* Python's binding of a call by keywords: every keyword is a parameter and
\* every parameter without a default is given
BindsCall(keywords, params, required) ==
    keywords \subseteq params /\ required \subseteq keywords

\* what the call of add_booking raises: TypeError when the keywords do not
\* bind, else sqlite3.OperationalError when a statement names a column the
\* table lacks, else nothing
AddBookingRaises ==
    IF ~BindsCall(AddBookingCallKeywords, AddBookingParams, AddBookingRequired)
    THEN "TypeError"
    ELSE IF ~(AddBookingColumns \subseteq BookingColumns) THEN "OperationalError"
    ELSE "none"

\* the values the capacity error message reports, rounded as round(x, 1)
CapacityError(a, av) ==
    [booked_hours |-> a.booked_hours,
     available_hours |-> Round1(av.available_hours),
     total_utilized_hours |-> Round1(av.total_utilized_hours),
     total_booked_hours |-> Round1(av.total_booked_hours),
     total_reserved_hours |-> Round1(av.total_reserved_hours),
     total_max_hours |-> av.total_max_hours,
     total_working_days |-> av.working_days,
     max_hours_per_day |-> av.max_hours_per_day]

BookingResponse(a, status, detail) ==
    Response("book_employee_for_project",
             [request |-> a, status |-> status, detail |-> detail])

RequestState(pc, a, locals, seen) ==
    [pc |-> pc, args |-> a, locals |-> locals, seen |-> seen]

\* mutant: a project for every id
ProjectFound_Always(prj, project_id) == TRUE

\* Project.get_by_id(project_id) returns a project
ProjectFound(prj, project_id) == project_id \in prj

\* Employee.get_by_id(employee_id) returns an employee
EmployeeFound(emps, employee_id) == employee_id \in emps

\* the outcome of lines 77-179 of book_employee_for_project for a
\* booking_data that holds the four required fields
ControllerCheckOutcome(a) ==
    IF ~ProjectFound(projects, a.project_id) THEN "project_not_found"
    ELSE IF ~EmployeeFound(employees, a.employee_id) THEN "employee_not_found"
    ELSE IF 0 \in AdmissionDivisors(bookings, projects, a.employee_id,
                                    a.start_date, a.end_date)
    THEN "ZeroDivisionError"
    ELSE IF a.booked_hours * WdLcm
              > AdmissionAvailability(config, rules, reservations, bookings, projects,
                    a.employee_id, a.start_date, a.end_date).available_hours
    THEN "insufficient_capacity"
    ELSE "passed"

\* the outcome of the route's validation and of lines 77-179 of
\* book_employee_for_project
BookCheckOutcome(a) ==
    IF ~BookingRequestValid(a) THEN "validation_error"
    ELSE ControllerCheckOutcome(a)

\* worker p takes a booking request up to the capacity check: it answers
\* with the error, or goes on to the insert
BookCheck(p, a) ==
    LET outcome == BookCheckOutcome(a)
        av == AdmissionAvailability(config, rules, reservations, bookings, projects,
                  a.employee_id, a.start_date, a.end_date)
    IN  /\ req[p].pc # "insert"
        /\ IF outcome = "passed"
           THEN /\ req' = [req EXCEPT ![p] = RequestState("insert", a, av, bookings)]
                /\ UNCHANGED last
           ELSE /\ req' = [req EXCEPT ![p] = IdleRequest]
                /\ last' = BookingResponse(a, outcome,
                              IF outcome = "insufficient_capacity"
                              THEN CapacityError(a, av) ELSE <<>>)
        /\ UNCHANGED <<schema, config, rules, employees, projects, reservations, nextResId,
                       bookings, audit, schedules, cleared>>

\* worker p calls book_employee_for_project itself, on a booking_data no
\* BookingRequest has validated, up to the capacity check
ControllerCheck(p, a) ==
    LET outcome == ControllerCheckOutcome(a)
        av == AdmissionAvailability(config, rules, reservations, bookings, projects,
                  a.employee_id, a.start_date, a.end_date)
    IN  /\ req[p].pc # "insert"
        /\ IF outcome = "passed"
           THEN /\ req' = [req EXCEPT ![p] = RequestState("insert", a, av, bookings)]
                /\ UNCHANGED last
           ELSE /\ req' = [req EXCEPT ![p] = IdleRequest]
                /\ last' = BookingResponse(a, outcome,
                              IF outcome = "insufficient_capacity"
                              THEN CapacityError(a, av) ELSE <<>>)
        /\ UNCHANGED <<schema, config, rules, employees, projects, reservations, nextResId,
                       bookings, audit, schedules, cleared>>

\* the row _log_booking inserts into audit_log
AuditRow(a) ==
    [action |-> "BOOK_EMPLOYEE", table_name |-> "project_bookings",
     project_id |-> a.project_id, employee_id |-> a.employee_id,
     booking_data |-> a]

\* mutant: _log_booking called before add_booking
LoggedAudit_BeforeInsert(aud, raises, a) == Append(aud, AuditRow(a))

\* audit_log after the try block of lines 181-197: _log_booking (line 191)
\* follows the call of add_booking and is reached only when it returns
LoggedAudit(aud, raises, a) ==
    IF raises = "none" THEN Append(aud, AuditRow(a)) ELSE aud

\* project_bookings after the call of add_booking: one new row when it
\* returns, none when it raises
InsertedBookings(bks, raises, a) ==
    IF raises = "none"
    THEN bks \cup {BookingRow(1 + Cardinality(bks), a.project_id, a.employee_id,
                              a.start_date, a.end_date, a.booked_hours, "booked")}
    ELSE bks

\* worker p goes through lines 181-197: add_booking, then _log_booking and
\* the success response; when add_booking raises, the except branch
\* answers "Booking failed: ..." and _log_booking is not reached
BookInsert(p) ==
    /\ req[p].pc = "insert"
    /\ req' = [req EXCEPT ![p].pc = "done"]
    /\ bookings' = InsertedBookings(bookings, AddBookingRaises, req[p].args)
    /\ audit' = LoggedAudit(audit, AddBookingRaises, req[p].args)
    /\ last' = IF AddBookingRaises = "none"
               THEN BookingResponse(req[p].args, "success", <<>>)
               ELSE BookingResponse(req[p].args, "booking_failed", AddBookingRaises)
    /\ UNCHANGED <<schema, config, rules, employees, projects, reservations, nextResId,
                   schedules, cleared>>

(***************************************************************************)
(* GET /{employee_id}/availability-range                                   *)
(***************************************************************************)
\* the bookings query of the endpoint (JOIN projects, not cancelled, coarse
\* date filter)
RangeBookings(bks, prj, e, s, t) ==
    {b \in bks : /\ b.employee_id = e
                 /\ b.project_id \in prj
                 /\ b.status # "cancelled"
                 /\ SqlOverlap(b.start_date, b.end_date, s, t)}

\* mutant: the whole booked hours of a booking that overlaps the window
RangeBookingOverlapHours_Whole(b, s, t) ==
    IF Max(s, b.start_date) <= Min(t, b.end_date) THEN b.booked_hours * WdLcm ELSE 0

\* the pro-rating loop body of the endpoint for one booking, over WdLcm
RangeBookingOverlapHours(b, s, t) ==
    LET overlap_start == Max(s, b.start_date)
        overlap_end == Min(t, b.end_date)
        overlap_working_days == count_working_days_range(overlap_start, overlap_end)
        booking_total_working_days ==
            count_working_days_range(b.start_date, b.end_date)
    IN  IF overlap_start <= overlap_end /\ booking_total_working_days > 0
        THEN ((b.booked_hours * WdLcm) \div booking_total_working_days)
                * overlap_working_days
        ELSE 0

\* mutant: the hours per day over every calendar day of the overlap
RangeReservationOverlapHours_CalendarDays(r, s, t) ==
    LET overlap_start == Max(s, r.start_date)
        overlap_end == Min(t, r.end_date)
    IN  IF overlap_start <= overlap_end
        THEN r.reserved_hours_per_day * (overlap_end - overlap_start + 1) * WdLcm
        ELSE 0

\* the reservation loop body of the endpoint, over WdLcm
RangeReservationOverlapHours(r, s, t) ==
    LET overlap_start == Max(s, r.start_date)
        overlap_end == Min(t, r.end_date)
    IN  IF overlap_start <= overlap_end
        THEN r.reserved_hours_per_day
                * count_working_days_range(overlap_start, overlap_end) * WdLcm
        ELSE 0

\* mutant: the utilized hours added to the capacity
range_available_hours_Added(total_max_hours, total_utilized_hours) ==
    Max(0, total_max_hours * WdLcm + total_utilized_hours)

\* "available_hours = max(0, total_max_hours - total_utilized_hours)" of the
\* endpoint, over WdLcm
range_available_hours(total_max_hours, total_utilized_hours) ==
    Max(0, total_max_hours * WdLcm - total_utilized_hours)

\* mutant: the divisions without the test of the divisor
RangeDivisors_Unguarded(bks, prj, e, s, t) ==
    {count_working_days_range(b.start_date, b.end_date) :
        b \in {x \in RangeBookings(bks, prj, e, s, t) :
                 Max(s, x.start_date) <= Min(t, x.end_date)}}
    \cup {count_working_days_range(s, t)}

\* the divisors of the divisions the endpoint executes: the working days of
\* each selected booking that overlaps the window, under the test of line
\* 374, and the working days of the window, under the test of line 398
RangeDivisors(bks, prj, e, s, t) ==
    {count_working_days_range(b.start_date, b.end_date) :
        b \in {x \in RangeBookings(bks, prj, e, s, t) :
                 /\ Max(s, x.start_date) <= Min(t, x.end_date)
                 /\ count_working_days_range(x.start_date, x.end_date) > 0}}
    \cup (IF count_working_days_range(s, t) > 0
          THEN {count_working_days_range(s, t)} ELSE {})

\* the local variables of the endpoint once available_hours is assigned
RangeAvailability(cfg, rls, res, bks, prj, e, s, t) ==
    LET total_working_days == count_working_days_range(s, t)
        max_hours_per_day == get_settings_for_employee(cfg, rls, e).work_hours_per_day
        total_max_hours == total_working_days * max_hours_per_day
        existing == RangeBookings(bks, prj, e, s, t)
        perBooking == [i \in {b.id : b \in existing} |->
                         RangeBookingOverlapHours(CHOOSE b \in existing : b.id = i, s, t)]
        total_booked_hours == SumFn(perBooking, DOMAIN perBooking)
        active == get_active_reservations_for_date_range(res, e, s, t)
        perReservation == [i \in {r.id : r \in active} |->
                         RangeReservationOverlapHours(CHOOSE r \in active : r.id = i, s, t)]
        total_reserved_hours == SumFn(perReservation, DOMAIN perReservation)
        total_utilized_hours == total_booked_hours + total_reserved_hours
    IN  [working_days |-> total_working_days,
         max_hours_per_day |-> max_hours_per_day,
         total_max_hours |-> total_max_hours,
         per_booking |-> perBooking,
         total_booked_hours |-> total_booked_hours,
         total_reserved_hours |-> total_reserved_hours,
         total_utilized_hours |-> total_utilized_hours,
         available_hours |-> range_available_hours(total_max_hours, total_utilized_hours)]

\* the 'availability' object of the response: the sums rounded as round(x, 1)
RangeAvailabilityBody(av) ==
    [working_days |-> av.working_days,
     max_hours_total |-> av.total_max_hours,
     total_booked_hours |-> Round1(av.total_booked_hours),
     total_reserved_hours |-> Round1(av.total_reserved_hours),
     total_utilized_hours |-> Round1(av.total_utilized_hours),
     available_hours |-> Round1(av.available_hours)]

RangeResponse(e, s, t, status, body) ==
    Response("get_employee_availability_for_date_range",
             [employee_id |-> e, start_date |-> s, end_date |-> t,
              status |-> status, availability |-> body])

GetAvailabilityRange(e, s, t) ==
    /\ last' = IF e \notin employees THEN RangeResponse(e, s, t, "not_found", <<>>)
               ELSE IF t < s THEN RangeResponse(e, s, t, "invalid_range", <<>>)
               ELSE IF 0 \in RangeDivisors(bookings, projects, e, s, t)
               THEN RangeResponse(e, s, t, "ZeroDivisionError", <<>>)
               ELSE RangeResponse(e, s, t, "ok",
                        RangeAvailabilityBody(
                            RangeAvailability(config, rules, reservations, bookings,
                                              projects, e, s, t)))
    /\ UNCHANGED <<schema, config, rules, employees, projects, reservations, nextResId,
                   bookings, audit, schedules, req, cleared>>

(***************************************************************************)
(* Initial state and inputs                                                *)
(***************************************************************************)
ProjectIds == {1}

Procs == {1, 2}

\* the state of a fresh installation: config.py as shipped, empty tables
\* but for the employees and projects the requests refer to
InitBase ==
    /\ config = ShippedConfig
    /\ rules = [e \in EmployeeIds |-> {}]
    /\ employees = EmployeeIds
    /\ projects = ProjectIds
    /\ reservations = {}
    /\ nextResId = 1
    /\ bookings = {}
    /\ audit = <<>>
    /\ req = [p \in Procs |-> IdleRequest]
    /\ last = NoResponse
    /\ cleared = [e \in EmployeeIds |-> "no"]
    /\ schema = MigratedSchema
    /\ schedules = UNION {initialize_schedule({}, e) : e \in EmployeeIds}

\* every function from a subset D of the fields to the values V allows
PartialDicts(V) ==
    UNION {{f \in [D -> UNION {V[k] : k \in D}] : \A k \in D : f[k] \in V[k]} :
           D \in SUBSET (DOMAIN V)}

\* update_settings: the ints the route passes, and a float for the days
SettingsValues ==
    [work_hours_per_day |-> {PyNumber(FALSE, 14)},
     work_days_per_month |-> {PyNumber(TRUE, 37)},
     months_in_year |-> {PyNumber(FALSE, 22)}]

SettingsInputs == PartialDicts(SettingsValues)

\* set_employee_business_rules: 4.0 and 7.5 hours, 10.5 days, 10 months
RuleValues ==
    [work_hours_per_day |-> {8, 15},
     work_days_per_month |-> {21},
     months_in_year |-> {10}]

RuleInputs == PartialDicts(RuleValues) \ {<<>>}

(***************************************************************************)
(* SpecRules: the business rules alone                                     *)
(***************************************************************************)
NextRules ==
    \/ \E s \in SettingsInputs : UpdateSettings(s)
    \/ GetSettings
    \/ \E e \in EmployeeIds : GetSettingsForEmployee(e)
    \/ \E e \in EmployeeIds, r \in RuleInputs : SetEmployeeBusinessRules(e, r)
    \/ \E e \in EmployeeIds : DeleteEmployeeBusinessRules(e)
    \/ Restart

SpecRules == InitBase /\ [][NextRules]_vars

(***************************************************************************)
(* Spec: the reservation endpoints                                         *)
(***************************************************************************)
\* the employee ids a request may name: 3 has no row in employees
AllEmployeeIds == EmployeeIds \cup {3}

\* reservation ids a request may name: the stored ones and one never issued
AllResIds == 1..(MaxRes + 1)

\* reserved_hours_per_day of the requests: -0.5, 5.0 and 7.0 hours
ReservedInputs == {-1, 10, 14}

\* overrides of the hours per day: 4.0 and 8.0 hours
HoursOverrideInputs ==
    {[f \in {"work_hours_per_day"} |-> h] : h \in {8, 16}}

\* ReservationUpdate bodies: no field or one field
UpdateInputs ==
    {<<>>}
    \cup {[f \in {"start_date"} |-> d] : d \in Dates}
    \cup {[f \in {"end_date"} |-> d] : d \in Dates}
    \cup {[f \in {"reserved_hours_per_day"} |-> h] : h \in ReservedInputs}
    \cup {[f \in {"status"} |-> st] : st \in {"active", "cancelled", "closed"}}

Next ==
    \/ \E e \in AllEmployeeIds, s \in Dates, t \in Dates, h \in ReservedInputs :
          CreateReservation(e, s, t, h)
    \/ \E e \in EmployeeIds, id \in AllResIds, kw \in UpdateInputs :
          UpdateReservation(e, id, kw)
    \/ \E e \in EmployeeIds, id \in AllResIds : CancelReservation(e, id)
    \/ \E e \in EmployeeIds, id \in AllResIds : DeleteReservation(e, id)

Spec == InitBase /\ [][Next]_vars

(***************************************************************************)
(* SpecHours: reservation creation under changing per-employee overrides   *)
(***************************************************************************)
NextHours ==
    \/ \E e \in EmployeeIds, s \in Dates, t \in Dates, h \in ReservedInputs :
          CreateReservation(e, s, t, h)
    \/ \E e \in EmployeeIds, r \in HoursOverrideInputs : SetEmployeeBusinessRules(e, r)
    \/ \E e \in EmployeeIds : DeleteEmployeeBusinessRules(e)

SpecHours == InitBase /\ [][NextHours]_vars

(***************************************************************************)
(* SpecBook: two workers taking booking requests over a database file that *)
(* already holds bookings, a reservation and an override                   *)
(***************************************************************************)
\* the database file as the application finds it: tables are created IF NOT
\* EXISTS, so the rows of an earlier run stay
StoredTables(bks, res, rls) ==
    /\ config = ShippedConfig
    /\ rules = rls
    /\ employees = EmployeeIds
    /\ projects = ProjectIds
    /\ reservations = res
    /\ nextResId = 1 + Cardinality(res)
    /\ bookings = bks
    /\ audit = <<>>
    /\ req = [p \in Procs |-> IdleRequest]
    /\ last = NoResponse
    /\ cleared = [e \in EmployeeIds |-> "no"]
    /\ schema = MigratedSchema

\* the stored rows, every employee with the schedule rows of the year
InitStored(bks, res, rls) ==
    /\ StoredTables(bks, res, rls)
    /\ schedules = UNION {initialize_schedule({}, e) : e \in EmployeeIds}

\* stored bookings of employee 1: 4.0 hours over Thursday to Sunday, and a
\* cancelled one of 4.0 hours on the Thursday
BookBookingStores ==
    SUBSET {BookingRow(1, 1, 1, 4, 7, 8, "booked"),
            BookingRow(2, 1, 1, 4, 4, 8, "cancelled")}

\* no reservation, or 2.0 hours a day for employee 1 on Thursday and Friday
StoredReservations == {{}, {ReservationRow(1, 1, 4, 5, 4, "active")}}

\* no override, or 8.0 hours per day for employee 1
StoredRules ==
    {[e \in EmployeeIds |-> {}],
     [e \in EmployeeIds |-> IF e = 1 THEN {RuleRow({16}, {}, {})} ELSE {}]}

InitBook ==
    \E bks \in BookBookingStores, res \in StoredReservations, rls \in StoredRules :
        InitStored(bks, res, rls)

\* booking requests: project 2 and employee 3 do not exist; 4.0 or 12.0 hours
BookInputs ==
    {BookingArgs(project_id, e, w[1], w[2], h) :
        project_id \in {1, 2}, e \in {1, 3},
        w \in {<<4, 4>>, <<4, 7>>, <<7, 4>>}, h \in {8, 24}}

NextBook ==
    \/ \E p \in Procs, a \in BookInputs : BookCheck(p, a)
    \/ \E p \in Procs : BookInsert(p)

SpecBook == InitBook /\ [][NextBook]_vars

(***************************************************************************)
(* SpecController: book_employee_for_project called on any booking_data,   *)
(* valid for BookingRequest or not                                         *)
(***************************************************************************)
\* project 2 and employee 3 do not exist; a window, a single day and a
\* reversed range; 0, 4.0 or 12.0 hours
ControllerInputs ==
    {BookingArgs(project_id, e, w[1], w[2], h) :
        project_id \in {1, 2}, e \in {1, 3},
        w \in {<<4, 4>>, <<4, 7>>, <<7, 4>>}, h \in {0, 8, 24}}

NextController ==
    \/ \E p \in Procs, a \in ControllerInputs : ControllerCheck(p, a)
    \/ \E p \in Procs : BookInsert(p)

SpecController == InitBook /\ [][NextController]_vars

(***************************************************************************)
(* SpecAvail: the capacity computations of the booking request and of the  *)
(* availability-range endpoint over stored bookings of every range         *)
(***************************************************************************)
\* one booking of 10.0 hours of employee 1 with any range, booked or
\* cancelled, alone or beside a completed booking of 4.0 hours over Thursday
\* to Sunday
AvailBookingStores ==
    LET first == {BookingRow(1, 1, 1, r[1], r[2], 20, st) :
                     r \in Ranges, st \in {"booked", "cancelled"}}
        second == BookingRow(2, 1, 1, 4, 7, 8, "completed")
    IN  {{}} \cup {{b} : b \in first} \cup {{b, second} : b \in first}

InitAvail ==
    \E bks \in AvailBookingStores, res \in StoredReservations :
        InitStored(bks, res, [e \in EmployeeIds |-> {}])

\* booking requests of 4.0 hours for project 1: employee 1 over every pair
\* of dates, and employee 3, who does not exist
AvailInputs ==
    {BookingArgs(1, 1, s, t, 8) : s \in Dates, t \in Dates}
    \cup {BookingArgs(1, 3, 4, 4, 8)}

NextAvail ==
    \/ \E a \in AvailInputs : BookCheck(1, a)
    \/ BookInsert(1)
    \/ \E a \in AvailInputs :
          GetAvailabilityRange(a.employee_id, a.start_date, a.end_date)

SpecAvail == InitAvail /\ [][NextAvail]_vars

(***************************************************************************)
(* GET /api/dashboard/resources                                            *)
(*   The clock of the server is in 2024.  The model keeps the enrichment   *)
(*   of each schedule row with the pro-rated hours of the month and the    *)
(*   monthly summary; the department grouping is left out.                 *)
(***************************************************************************)
\* count_working_days of get_resources_dashboard
dashboard_count_working_days(start_d, end_d) ==
    Cardinality({d \in start_d..end_d : weekday(d) \notin Weekend})

\* the days of the months of 2024
MonthLengths == <<31, 29, 31, 30, 31, 30, 31, 31, 30, 31, 30, 31>>

\* date(year, month, 1)
month_start(month) ==
    1 + SumFn([i \in 1..(month - 1) |-> MonthLengths[i]], 1..(month - 1))

\* date(year, month + 1, 1) - timedelta(days=1), or date(year, 12, 31)
month_end(month) == month_start(month) + MonthLengths[month] - 1

\* prorate_booking_hours_for_month, over WdLcm
prorate_booking_hours_for_month(b_start, b_end, booked_hours, month) ==
    LET overlap_start == Max(b_start, month_start(month))
        overlap_end == Min(b_end, month_end(month))
        booking_total_wd == dashboard_count_working_days(b_start, b_end)
        overlap_wd == dashboard_count_working_days(overlap_start, overlap_end)
    IN  IF overlap_start > overlap_end THEN 0
        ELSE IF booking_total_wd = 0 THEN 0
        ELSE ((booked_hours * WdLcm) \div booking_total_wd) * overlap_wd

\* prorate_reservation_hours_for_month, over WdLcm
prorate_reservation_hours_for_month(r_start, r_end, hours_per_day, month) ==
    LET overlap_start == Max(r_start, month_start(month))
        overlap_end == Min(r_end, month_end(month))
        overlap_wd == dashboard_count_working_days(overlap_start, overlap_end)
    IN  IF overlap_start > overlap_end THEN 0
        ELSE hours_per_day * overlap_wd * WdLcm

\* bookings_query: the bookings of the employee that are not cancelled and
\* overlap the year (no join with projects)
DashboardBookings(bks, e) ==
    {b \in bks : /\ b.employee_id = e
                 /\ b.status # "cancelled"
                 /\ b.start_date <= month_end(12)
                 /\ b.end_date >= month_start(1)}

\* reservations_query: the active reservations of the employee that overlap
\* the year
DashboardReservations(res, e) ==
    {r \in res : /\ r.employee_id = e
                 /\ r.status = "active"
                 /\ r.start_date <= month_end(12)
                 /\ r.end_date >= month_start(1)}

\* the divisors of the divisions prorate_booking_hours_for_month executes
\* for the bookings of the employee: the working days of each booking that
\* overlaps a month, under the test of line 77
DashboardDivisors(bks, e) ==
    {dashboard_count_working_days(b.start_date, b.end_date) :
        b \in {x \in DashboardBookings(bks, e) :
                 /\ \E m \in Months : Max(x.start_date, month_start(m))
                                        <= Min(x.end_date, month_end(m))
                 /\ dashboard_count_working_days(x.start_date, x.end_date) # 0}}

\* lines 157-176: the three fields added to the schedule row of month m,
\* rounded as round(x, 1)
DashboardSchedule(res, bks, e, m) ==
    LET emp_bookings == DashboardBookings(bks, e)
        emp_reservations == DashboardReservations(res, e)
        perBooking == [i \in {b.id : b \in emp_bookings} |->
                         LET b == CHOOSE x \in emp_bookings : x.id = i
                         IN  prorate_booking_hours_for_month(
                                 b.start_date, b.end_date, b.booked_hours, m)]
        perReservation == [i \in {r.id : r \in emp_reservations} |->
                         LET r == CHOOSE x \in emp_reservations : x.id = i
                         IN  prorate_reservation_hours_for_month(
                                 r.start_date, r.end_date, r.reserved_hours_per_day, m)]
        pro_rated_booked == SumFn(perBooking, DOMAIN perBooking)
        pro_rated_reserved == SumFn(perReservation, DOMAIN perReservation)
    IN  [project_booked_hours |-> Round1(pro_rated_booked),
         reserved_hours |-> Round1(pro_rated_reserved),
         booked_hours |-> Round1(pro_rated_booked + pro_rated_reserved)]

\* schedule_query: the months of the year for which the employee has a row
ScheduleMonths(sch, e) == {r.month : r \in {x \in sch : x.employee_id = e}}

\* lines 185-202: the totals of month m over the schedule rows of the
\* employees.  Hours x days of the settings are in quarter hours (both
\* factors are halves) and the rounded hours of a row in tenths, so
\* total_available is in twentieths of an hour, total_booked in tenths and
\* total_capacity in quarter hours.
DashboardSummary(cfg, sch, enriched, emps, m) ==
    LET settings == get_settings(cfg)
        work_hours_per_day == settings.work_hours_per_day
        work_days_per_month == settings.work_days_per_month
        monthly_capacity == work_hours_per_day * work_days_per_month
        rows == {r \in sch : r.month = m /\ r.employee_id \in emps}
        total_utilized == [e \in {r.employee_id : r \in rows} |->
            enriched[e][m].project_booked_hours + enriched[e][m].reserved_hours]
        actual_available == [e \in {r.employee_id : r \in rows} |->
            LET sched == CHOOSE r \in rows : r.employee_id = e
                base_available ==
                    (work_hours_per_day - sched.reserved_hours_per_day)
                        * work_days_per_month
            IN  5 * base_available - 2 * total_utilized[e]]
    IN  [total_available |-> SumFn(actual_available, DOMAIN actual_available),
         total_booked |-> SumFn(total_utilized, DOMAIN total_utilized),
         total_capacity |-> Cardinality(rows) * monthly_capacity,
         employee_count |-> Cardinality(rows)]

\* the schedule rows of every employee, each with the pro-rated hours of
\* its month (lines 118-176)
EnrichedSchedules(sch, res, bks, emps) ==
    [e \in emps |-> [m \in ScheduleMonths(sch, e) |-> DashboardSchedule(res, bks, e, m)]]

\* the handler without manager_id: every employee with its schedule rows,
\* and the summary of each month
GetResourcesDashboard ==
    \E enriched \in {EnrichedSchedules(schedules, reservations, bookings, employees)} :
        /\ last' = Response("get_resources_dashboard",
                    IF \E e \in employees : 0 \in DashboardDivisors(bookings, e)
                    THEN [status |-> "ZeroDivisionError", schedule |-> <<>>,
                          monthly_summary |-> <<>>]
                    ELSE [status |-> "ok",
                          schedule |-> enriched,
                          monthly_summary |-> [m \in Months |->
                              DashboardSummary(config, schedules, enriched,
                                               employees, m)]])
        /\ UNCHANGED <<schema, config, rules, employees, projects, reservations,
                       nextResId, bookings, audit, schedules, req, cleared>>

\* PUT /api/employees/{e}/schedule for a month of 2024: the rows of the
\* year are inserted when the month has none, then the hours are written
\* unless they exceed the global hours per day
UpdateEmployeeSchedule(e, month, reserved_hours) ==
    LET found == EmployeeFound(employees, e)
        valid == reserved_hours >= 0 /\ reserved_hours <= 48
        initialized == initialize_schedule(schedules, e)
        accepted == reserved_hours <= get_work_hours_per_day(config)
        row == CHOOSE r \in initialized : r.employee_id = e /\ r.month = month
    IN  /\ schedules' =
              IF ~valid \/ ~found THEN schedules
              ELSE IF ~accepted THEN initialized
              ELSE (initialized \ {row}) \cup {ScheduleRow(e, month, reserved_hours)}
        /\ last' = Response("update_employee_schedule",
                        IF ~valid THEN "validation_error"
                        ELSE IF ~found THEN "not_found"
                        ELSE IF ~accepted THEN "out_of_range"
                        ELSE "ok")
        /\ UNCHANGED <<schema, config, rules, employees, projects, reservations, nextResId,
                       bookings, audit, req, cleared>>

(***************************************************************************)
(* SpecDash: the resources dashboard over employees with and without the   *)
(* schedule rows of the year, with and without an override                 *)
(***************************************************************************)
\* employee 2 was created in 2024 and has the rows of the year, or in an
\* earlier year and has none
DashScheduleStores ==
    {initialize_schedule({}, 1),
     initialize_schedule({}, 1) \cup initialize_schedule({}, 2)}

\* no booking, or 16.0 hours of employee 1 from 2024-01-01 to 2024-01-10
DashBookingStores == {{}, {BookingRow(1, 1, 1, 1, 10, 32, "booked")}}

InitDash ==
    /\ \E bks \in DashBookingStores, res \in StoredReservations, rls \in StoredRules :
          StoredTables(bks, res, rls)
    /\ \E sch \in DashScheduleStores : schedules = sch

\* 0, 2.0 or 7.0 reserved hours a day
ScheduleHoursInputs == {0, 4, 14}

NextDash ==
    \/ GetResourcesDashboard
    \/ \E e \in EmployeeIds, m \in Months, h \in ScheduleHoursInputs :
          UpdateEmployeeSchedule(e, m, h)
    \/ \E e \in EmployeeIds : GetAvailabilityRange(e, month_start(1), month_end(1))
    \/ \E e \in EmployeeIds, r \in HoursOverrideInputs : SetEmployeeBusinessRules(e, r)

SpecDash == InitDash /\ [][NextDash]_vars

(***************************************************************************)
(* SpecCal: the capacity computations over a wide calendar, days 1 to      *)
(* MaxDay of January 2024 and the month of March 2024 (days 61 to 91)      *)
(***************************************************************************)
CalDates == 1..MaxDay

\* stored bookings of employee 1: 80.0 hours from 2024-01-01 to 2024-01-10,
\* and 4.0 hours over Friday 2024-01-05 and Saturday 2024-01-06
CalBookingStores ==
    SUBSET {BookingRow(1, 1, 1, 1, 10, 160, "booked"),
            BookingRow(2, 1, 1, 5, 6, 8, "booked")}

\* no reservation, or 2.0 hours a day for employee 1 from 2024-03-01 to
\* 2024-03-31
CalReservationStores == {{}, {ReservationRow(1, 1, 61, 91, 4, "active")}}

InitCal ==
    \E bks \in CalBookingStores, res \in CalReservationStores :
        InitStored(bks, res, [e \in EmployeeIds |-> {}])

\* windows: every pair of days of the wide calendar, March 2024 and its
\* halves
CalWindows ==
    (CalDates \X CalDates) \cup {<<61, 91>>, <<61, 75>>, <<76, 91>>}

\* booking requests for project 1 and employee 1: 4.0 hours from Monday to
\* Friday, over the weekend alone and over the weekend backwards, and 200.0
\* hours over March 2024
CalInputs ==
    {BookingArgs(1, 1, w[1], w[2], 8) : w \in {<<1, 5>>, <<5, 6>>, <<6, 5>>}}
    \cup {BookingArgs(1, 1, 61, 91, 400)}

NextCal ==
    \/ \E a \in CalInputs : BookCheck(1, a)
    \/ BookInsert(1)
    \/ \E w \in CalWindows : GetAvailabilityRange(1, w[1], w[2])
    \/ GetResourcesDashboard

SpecCal == InitCal /\ [][NextCal]_vars

(***************************************************************************)
(* SpecCancel: reservations of employee 1 created, cancelled and set back  *)
(* to active, and the three computations that read them                    *)
(***************************************************************************)
\* 2.0 hours a day over Thursday and Friday or over Friday to Sunday
CancelCreateInputs == {<<4, 5, 4>>, <<5, 7, 4>>}

\* booking requests of employee 1 for project 1 over Thursday to Sunday:
\* 4.0 hours and 50.0 hours
CancelBookInputs == {BookingArgs(1, 1, 4, 7, h) : h \in {8, 100}}

NextCancel ==
    \/ \E c \in CancelCreateInputs : CreateReservation(1, c[1], c[2], c[3])
    \/ \E id \in AllResIds : CancelReservation(1, id)
    \/ \E id \in AllResIds : UpdateReservation(1, id, [f \in {"status"} |-> "active"])
    \/ \E r \in Ranges : GetAvailabilityRange(1, r[1], r[2])
    \/ \E a \in CancelBookInputs : BookCheck(1, a)
    \/ BookInsert(1)
    \/ GetResourcesDashboard

SpecCancel == InitBook /\ [][NextCancel]_vars

(***************************************************************************)
(* DELETE /api/employees/{employee_id}                                     *)
(*   The connection never turns on PRAGMA foreign_keys, so SQLite does not *)
(*   enforce the FOREIGN KEY clauses and the three DELETE statements of    *)
(*   Employee.delete succeed whatever rows refer to the employee.          *)
(***************************************************************************)
\* Employee.delete: the schedules, the project bookings and the employee row
\* go; employee_reservations and employee_business_rules are not touched
DeleteEmployee(e) ==
    /\ employees' = employees \ {e}
    /\ bookings' = IF EmployeeFound(employees, e)
                   THEN {b \in bookings : b.employee_id # e}
                   ELSE bookings
    /\ last' = Response("delete_employee",
                    [employee_id |-> e,
                     status |-> IF EmployeeFound(employees, e) THEN "ok"
                                ELSE "not_found"])
    /\ schedules' = IF EmployeeFound(employees, e)
                    THEN {r \in schedules : r.employee_id # e}
                    ELSE schedules
    /\ UNCHANGED <<schema, config, rules, projects, reservations, nextResId, audit, req,
                   cleared>>

\* employees deleted and reservations created over the stored rows, with
\* the availability of Thursday to Sunday and the dashboard read in between
NextDelete ==
    \/ \E e \in AllEmployeeIds : DeleteEmployee(e)
    \/ \E e \in EmployeeIds, c \in CancelCreateInputs :
          CreateReservation(e, c[1], c[2], c[3])
    \/ \E e \in EmployeeIds : GetAvailabilityRange(e, 4, 7)
    \/ GetResourcesDashboard

SpecDelete == InitBook /\ [][NextDelete]_vars

(***************************************************************************)
(* SpecCount: the three copies of count_working_days called on every pair  *)
(* of days of two weeks                                                    *)
(***************************************************************************)
CountDates == 1..(MaxDay + 4)

\* one call of each copy on the same arguments: the loop "while current <=
\* end" adds one for each day outside the weekend and the function returns
\* the sum; no statement of it raises
CountWorkingDays(start, end) ==
    /\ last' = Response("count_working_days",
                    [start |-> start, end |-> end,
                     project_controller |-> count_working_days(start, end),
                     employee_routes |-> count_working_days_range(start, end),
                     dashboard_controller |-> dashboard_count_working_days(start, end),
                     raised |-> "none"])
    /\ UNCHANGED <<schema, config, rules, employees, projects, reservations, nextResId,
                   bookings, audit, schedules, req, cleared>>

NextCount == \E start \in CountDates, end \in CountDates : CountWorkingDays(start, end)

SpecCount == InitBase /\ [][NextCount]_vars

(***************************************************************************)
(* Claims                                                                  *)
(***************************************************************************)
\* the active reservations of e that share a date with [s, t]
ActiveIntersecting(e, s, t) ==
    {r \in reservations : /\ r.employee_id = e
                          /\ r.status = "active"
                          /\ Intersects(r.start_date, r.end_date, s, t)}

\* what is used of employee e on day d, over WdLcm: each non-cancelled
\* booking spread evenly over its working days, each active reservation at
\* its hours per day
DayLoad(e, d) ==
    LET bs == {b \in bookings : /\ b.employee_id = e
                                /\ b.status # "cancelled"
                                /\ b.start_date <= d /\ d <= b.end_date}
        rs == {r \in reservations : /\ r.employee_id = e
                                    /\ r.status = "active"
                                    /\ r.start_date <= d /\ d <= r.end_date}
        booked == [i \in {b.id : b \in bs} |->
                     LET b == CHOOSE x \in bs : x.id = i
                         wd == Cardinality({x \in b.start_date..b.end_date :
                                               weekday(x) \notin Weekend})
                     IN  (b.booked_hours * WdLcm) \div wd]
        reserved == [i \in {r.id : r \in rs} |->
                     (CHOOSE x \in rs : x.id = i).reserved_hours_per_day * WdLcm]
    IN  [booked |-> SumFn(booked, DOMAIN booked),
         reserved |-> SumFn(reserved, DOMAIN reserved)]

\* the capacity of [s, t] for e and its use, day by day, over WdLcm
WindowLoad(e, s, t) ==
    LET days == {d \in s..t : weekday(d) \notin Weekend}
        hours == get_settings_for_employee(config, rules, e).work_hours_per_day
        booked == SumFn([d \in days |-> DayLoad(e, d).booked], days)
        reserved == SumFn([d \in days |-> DayLoad(e, d).reserved], days)
    IN  [booked |-> booked,
         reserved |-> reserved,
         utilized |-> booked + reserved,
         available |-> Max(0, Cardinality(days) * hours * WdLcm - booked - reserved)]

\* C1: a valid booking request for an existing project and employee whose
\* booked_hours exceed the available hours of its window is answered with
\* the capacity error, which reports the available hours, the utilized hours
\* and their booked and reserved parts (rounded to a tenth), and leaves the
\* bookings and the audit log as they were.
C1_OverCapacityBookingRejected ==
    [][(last'.op = "book_employee_for_project" /\ last' # last) =>
        LET a == last'.result.request
            detail == last'.result.detail
        IN  (/\ BookingRequestValid(a)
             /\ a.project_id \in projects
             /\ a.employee_id \in employees
             /\ a.booked_hours * WdLcm
                  > WindowLoad(a.employee_id, a.start_date, a.end_date).available)
            => LET w == WindowLoad(a.employee_id, a.start_date, a.end_date)
               IN  /\ last'.result.status = "insufficient_capacity"
                   /\ detail.available_hours = Round1(w.available)
                   /\ detail.total_utilized_hours = Round1(w.utilized)
                   /\ detail.total_booked_hours = Round1(w.booked)
                   /\ detail.total_reserved_hours = Round1(w.reserved)
                   /\ bookings' = bookings
                   /\ audit' = audit]_vars

\* C1 witness: the capacity error was returned for a window with a stored
\* booking and a reservation in it and hours left, and nothing was written
C1_Witness ==
    /\ last.op = "book_employee_for_project"
    /\ last.result.status = "insufficient_capacity"
    /\ last.result.detail.total_booked_hours > 0
    /\ last.result.detail.total_reserved_hours > 0
    /\ last.result.detail.available_hours > 0
    /\ 5 * last.result.request.booked_hours > last.result.detail.available_hours
    /\ \E b \in bookings : b.status = "cancelled"
    /\ audit = <<>>

\* C2: a valid booking request for an existing project and employee whose
\* booked_hours are within the available hours of its window succeeds and
\* leaves exactly one new booking with the requested employee, project,
\* dates and hours.
C2_WithinCapacityBookingInserted ==
    [][(last'.op = "book_employee_for_project" /\ last' # last) =>
        LET a == last'.result.request
        IN  (/\ BookingRequestValid(a)
             /\ a.project_id \in projects
             /\ a.employee_id \in employees
             /\ a.booked_hours * WdLcm
                  <= AdmissionAvailability(config, rules, reservations, bookings,
                        projects, a.employee_id, a.start_date,
                        a.end_date).available_hours)
            => /\ last'.result.status = "success"
               /\ \E b \in bookings' \ bookings :
                    /\ bookings' = bookings \cup {b}
                    /\ b.project_id = a.project_id
                    /\ b.employee_id = a.employee_id
                    /\ b.start_date = a.start_date
                    /\ b.end_date = a.end_date
                    /\ b.booked_hours = a.booked_hours]_vars

\* C3: two booking requests for the same employee with windows that share a
\* date never both pass the capacity check against the same bookings while
\* their hours together exceed what is available over the two windows.
C3_CheckAndInsertSerialized ==
    \A p \in Procs, q \in Procs :
        (/\ p # q
         /\ req[p].pc \in {"insert", "done"}
         /\ req[q].pc \in {"insert", "done"}
         /\ req[p].args.employee_id = req[q].args.employee_id
         /\ Intersects(req[p].args.start_date, req[p].args.end_date,
                       req[q].args.start_date, req[q].args.end_date)
         /\ req[p].seen = req[q].seen)
        => (req[p].args.booked_hours + req[q].args.booked_hours) * WdLcm
             <= AdmissionAvailability(config, rules, reservations, req[p].seen,
                    projects, req[p].args.employee_id,
                    Min(req[p].args.start_date, req[q].args.start_date),
                    Max(req[p].args.end_date, req[q].args.end_date)).available_hours

\* C4: the available hours are never negative: for every employee and
\* window over the stored bookings and reservations, as the capacity check
\* and the availability-range endpoint compute them, and in every value a
\* request holds or a response reports.
C4_AvailableHoursNeverNegative ==
    /\ \A e \in employees, r \in Ranges :
          /\ AdmissionAvailability(config, rules, reservations, bookings, projects,
                                   e, r[1], r[2]).available_hours >= 0
          /\ RangeAvailability(config, rules, reservations, bookings, projects,
                               e, r[1], r[2]).available_hours >= 0
    /\ \A p \in Procs : req[p].pc # "idle" => req[p].locals.available_hours >= 0
    /\ (last.op = "book_employee_for_project"
        /\ last.result.status = "insufficient_capacity")
       => last.result.detail.available_hours >= 0
    /\ (last.op = "get_employee_availability_for_date_range"
        /\ last.result.status = "ok")
       => last.result.availability.available_hours >= 0

\* C4 witness: the endpoint answered 0 available hours for a window whose
\* utilized hours exceed its capacity, and the capacity check computes 0 for
\* the same window
C4_Witness ==
    /\ last.op = "get_employee_availability_for_date_range"
    /\ last.result.status = "ok"
    /\ last.result.availability.available_hours = 0
    /\ last.result.availability.total_utilized_hours
         > 5 * last.result.availability.max_hours_total
    /\ last.result.availability.max_hours_total > 0
    /\ AdmissionAvailability(config, rules, reservations, bookings, projects,
           last.result.employee_id, last.result.start_date,
           last.result.end_date).available_hours = 0

\* C5: after any sequence of reservation operations, two distinct active
\* reservations of the same employee have disjoint closed date ranges.
C5_ActiveReservationsDisjoint ==
    \A r1 \in reservations, r2 \in reservations :
        (/\ r1.id # r2.id
         /\ r1.employee_id = r2.employee_id
         /\ r1.status = "active"
         /\ r2.status = "active")
        => ~Intersects(r1.start_date, r1.end_date, r2.start_date, r2.end_date)

\* C6: a create with a valid range and hours that pass the hours check is
\* rejected, with the store unchanged, exactly when an active reservation of
\* the same employee shares a date with the requested range; otherwise it
\* succeeds and stores the requested row as active, whatever cancelled rows
\* and other employees' rows exist.
C6_CreateRejectedIffActiveOverlap ==
    /\ [](\A e \in EmployeeIds, r \in Ranges, h \in ReservedInputs :
            (h >= 0 /\ h <= get_work_hours_per_day(config))
            => CreateOutcome(config, reservations, e, r[1], r[2], h)
                 = IF ActiveIntersecting(e, r[1], r[2]) # {} THEN "overlap" ELSE "ok")
    /\ [][last'.op = "create_reservation" =>
            /\ last'.result = "overlap" => reservations' = reservations
            /\ last'.result = "ok" =>
                 \E r \in reservations' :
                    /\ reservations' = reservations \cup {r}
                    /\ r.id = nextResId
                    /\ r.status = "active"
                    /\ ActiveIntersecting(r.employee_id, r.start_date, r.end_date) = {}]_vars

\* C6 witness: a create was rejected for overlap while a cancelled row and a
\* row of another employee were stored
C6_Witness ==
    /\ last = Response("create_reservation", "overlap")
    /\ \E r \in reservations : r.status = "cancelled"
    /\ \E r1 \in reservations, r2 \in reservations : r1.employee_id # r2.employee_id

\* C7: create for employee e is rejected as out of range, with the store
\* unchanged, exactly when reserved_hours_per_day is below 0 or above the
\* hours per working day of e's effective rules.
C7_HoursCheckedAgainstEffectiveRules ==
    [][\A e \in EmployeeIds, s \in Dates, t \in Dates, h \in ReservedInputs :
         (CreateReservation(e, s, t, h) /\ s <= t)
         => /\ (last'.result = "out_of_range")
                <=> (\/ h < 0
                     \/ h > get_settings_for_employee(config, rules, e).work_hours_per_day)
            /\ last'.result = "out_of_range" => reservations' = reservations]_vars

\* the merge of e's override row over the global settings, field by field,
\* with the stored values as they are
MergedFieldwise(e) ==
    LET g == get_settings(config)
        Field(f) == IF rules[e] # {} /\ Val(rules[e])[f] # Null
                    THEN Val(Val(rules[e])[f]) ELSE g[f]
    IN  [work_hours_per_day |-> Field("work_hours_per_day"),
         work_days_per_month |-> Field("work_days_per_month"),
         months_in_year |-> Field("months_in_year")]

\* C8: get_settings_for_employee(e) returns, for each field, exactly the
\* value stored in e's override row when it is not NULL and the current
\* global value otherwise.
C8_OverrideMergedFieldwise ==
    [][\A e \in EmployeeIds :
          GetSettingsForEmployee(e) => last'.result.settings = MergedFieldwise(e)]_vars

\* C9: once delete_employee_business_rules(e) ran, every later
\* get_settings_for_employee(e) up to the next set_employee_business_rules(e)
\* returns the global settings current at that call, whatever update_settings
\* calls came between.
C9_ClearedOverrideReadsGlobal ==
    [][\A e \in EmployeeIds :
          (GetSettingsForEmployee(e) /\ cleared[e] # "no")
          => last'.result.settings = get_settings(config)]_vars

\* C10: a booking that is not cancelled, lies entirely inside the window and
\* holds at least one working day is selected and contributes exactly its
\* booked_hours to the booked hours of the window, in the capacity check and
\* in the availability-range endpoint; one that holds no working day
\* contributes 0.
C10_ContainedBookingContributesInFull ==
    \A b \in bookings, r \in Ranges :
        (/\ b.status # "cancelled"
         /\ r[1] <= b.start_date
         /\ b.end_date <= r[2])
        => LET adm == AdmissionAvailability(config, rules, reservations, bookings,
                          projects, b.employee_id, r[1], r[2]).per_booking
               rng == RangeAvailability(config, rules, reservations, bookings,
                          projects, b.employee_id, r[1], r[2]).per_booking
               share == IF \E d \in b.start_date..b.end_date : weekday(d) \notin Weekend
                        THEN b.booked_hours * WdLcm ELSE 0
           IN  /\ b.id \in DOMAIN adm
               /\ adm[b.id] = share
               /\ b.id \in DOMAIN rng
               /\ rng[b.id] = share

\* C10 witness: the endpoint answered for a window that holds the one stored
\* booking of 10.0 hours and later days, and reports 10.0 booked hours
C10_Witness ==
    /\ last.op = "get_employee_availability_for_date_range"
    /\ last.result.status = "ok"
    /\ \E b \in bookings :
          /\ bookings = {b}
          /\ b.status = "booked"
          /\ b.employee_id = last.result.employee_id
          /\ last.result.start_date <= b.start_date
          /\ b.end_date < last.result.end_date
          /\ last.result.availability.total_booked_hours = 5 * b.booked_hours

\* C10 as stated: every booking that is not cancelled and lies entirely
\* inside the window contributes exactly its booked_hours.
C10_ContainedBookingContributesBookedHours ==
    \A b \in bookings, r \in Ranges :
        (/\ b.status # "cancelled"
         /\ r[1] <= b.start_date
         /\ b.end_date <= r[2])
        => /\ AdmissionAvailability(config, rules, reservations, bookings, projects,
                 b.employee_id, r[1], r[2]).per_booking[b.id]
                = b.booked_hours * WdLcm
           /\ RangeAvailability(config, rules, reservations, bookings, projects,
                 b.employee_id, r[1], r[2]).per_booking[b.id]
                = b.booked_hours * WdLcm

\* C11: the working days are counted with the weekend of the employee's
\* effective rules: for an employee whose weekend is Saturday and Sunday, a
\* booking of 80 hours from 2024-01-01 to 2024-01-10 contributes
\* 80 x 5/8 = 50.0 booked hours to the window 2024-01-01 to 2024-01-05, in
\* the availability-range response as in the capacity error of a booking
\* request.
C11_WeekendFromEffectiveRules ==
    LET stored == BookingRow(1, 1, 1, 1, 10, 160, "booked")
        r == last.result
    IN  /\ (/\ last.op = "get_employee_availability_for_date_range"
            /\ r.status = "ok"
            /\ r.employee_id = stored.employee_id
            /\ r.start_date = 1 /\ r.end_date = 5
            /\ stored \in bookings)
               => r.availability.total_booked_hours = 500
        /\ (/\ last.op = "book_employee_for_project"
            /\ r.status = "insufficient_capacity"
            /\ r.request.employee_id = stored.employee_id
            /\ r.request.start_date = 1 /\ r.request.end_date = 5
            /\ stored \in bookings)
               => r.detail.total_booked_hours = 500
\* the active reservation of 2.0 hours a day over March 2024
MarchReservation == ReservationRow(1, 1, 61, 91, 4, "active")

\* C12: an active reservation of 2 hours a day from 2024-03-01 to
\* 2024-03-31, queried for the whole of March 2024, has 21 working days
\* under the Friday/Saturday weekend and contributes 2 x 21 = 42.0 reserved
\* hours, in the availability-range response, in the capacity error of a
\* booking request and in the schedule row of March of the dashboard.
C12_MarchReservationContributes42 ==
    LET r == last.result
    IN  (reservations = {MarchReservation}) =>
          /\ (/\ last.op = "get_employee_availability_for_date_range"
              /\ r.status = "ok"
              /\ r.start_date = 61 /\ r.end_date = 91)
                 => /\ r.availability.working_days = 21
                    /\ r.availability.total_reserved_hours = 420
          /\ (/\ last.op = "book_employee_for_project"
              /\ r.status = "insufficient_capacity"
              /\ r.request.start_date = 61 /\ r.request.end_date = 91)
                 => /\ r.detail.total_working_days = 21
                    /\ r.detail.total_reserved_hours = 420
          /\ last.op = "get_resources_dashboard"
                 => /\ r.status = "ok"
                    /\ r.schedule[1][3].reserved_hours = 420

\* the availability of March 2024 has been read over the stored reservation
C12_Witness ==
    /\ reservations = {MarchReservation}
    /\ last.op = "get_employee_availability_for_date_range"
    /\ last.result.status = "ok"
    /\ last.result.start_date = 61 /\ last.result.end_date = 91
    /\ last.result.availability.total_reserved_hours = 420

\* C12 as stated: 22 working days and 2 x 22 = 44.0 reserved hours
C12_MarchReservationContributes44 ==
    LET r == last.result
    IN  (/\ reservations = {MarchReservation}
         /\ last.op = "get_employee_availability_for_date_range"
         /\ r.status = "ok"
         /\ r.start_date = 61 /\ r.end_date = 91)
            => /\ r.availability.working_days = 22
               /\ r.availability.total_reserved_hours = 440
\* C13: count_working_days is additive under partition: for all dates
\* a <= m < b, count_working_days(a, b) = count_working_days(a, m) +
\* count_working_days(m + 1, b), for each of the three copies.
C13_CountWorkingDaysAdditive ==
    LET r == last.result
    IN  (last.op = "count_working_days" /\ r.start <= r.end) =>
          \A m \in r.start..(r.end - 1) :
             /\ r.project_controller =
                   count_working_days(r.start, m) + count_working_days(m + 1, r.end)
             /\ r.employee_routes =
                   count_working_days_range(r.start, m)
                     + count_working_days_range(m + 1, r.end)
             /\ r.dashboard_controller =
                   dashboard_count_working_days(r.start, m)
                     + dashboard_count_working_days(m + 1, r.end)

\* a range of more than a week has been counted: Wednesday 2024-01-03 to
\* Friday 2024-01-12, 7 working days around one weekend and into the next
C13_Witness ==
    /\ last.op = "count_working_days"
    /\ last.result.start = 3 /\ last.result.end = 12
    /\ last.result.project_controller = 7
    /\ last.result.employee_routes = 7
    /\ last.result.dashboard_controller = 7

\* C14: count_working_days(start, end) fails with an invalid-range error
\* whenever end < start, rather than returning a count.
C14_ReversedRangeFails ==
    (last.op = "count_working_days" /\ last.result.end < last.result.start)
        => last.result.raised = "InvalidRangeError"
\* increases of half an hour and of four hours
HourIncrements == {1, 8}

\* the bookings with d more booked hours on booking b
WithMoreBooked(bks, b, d) ==
    (bks \ {b}) \cup {[b EXCEPT !.booked_hours = @ + d]}

\* the reservations with d more hours a day on reservation r
WithMoreReserved(res, r, d) ==
    (res \ {r}) \cup {[r EXCEPT !.reserved_hours_per_day = @ + d]}

\* C15: with the window, the rules and every other record fixed, more
\* booked_hours on a non-cancelled booking or more reserved_hours_per_day on
\* an active reservation never gives more available_hours, in the
\* availability-range response as in the capacity check of a booking
\* request.
C15_AvailableHoursMonotone ==
    /\ (last.op = "get_employee_availability_for_date_range"
           /\ last.result.status = "ok") =>
          LET r == last.result
          IN  \A d \in HourIncrements :
                 /\ \A b \in {x \in bookings : x.status # "cancelled"} :
                       Round1(RangeAvailability(config, rules, reservations,
                                  WithMoreBooked(bookings, b, d), projects,
                                  r.employee_id, r.start_date, r.end_date).available_hours)
                          <= r.availability.available_hours
                 /\ \A x \in {y \in reservations : y.status = "active"} :
                       Round1(RangeAvailability(config, rules,
                                  WithMoreReserved(reservations, x, d), bookings, projects,
                                  r.employee_id, r.start_date, r.end_date).available_hours)
                          <= r.availability.available_hours
    /\ \A p \in Procs : req[p].pc = "insert" =>
          LET a == req[p].args
          IN  \A d \in HourIncrements :
                 /\ \A b \in {x \in req[p].seen : x.status # "cancelled"} :
                       AdmissionAvailability(config, rules, reservations,
                           WithMoreBooked(req[p].seen, b, d), projects,
                           a.employee_id, a.start_date, a.end_date).available_hours
                          <= req[p].locals.available_hours
                 /\ \A x \in {y \in reservations : y.status = "active"} :
                       AdmissionAvailability(config, rules,
                           WithMoreReserved(reservations, x, d), req[p].seen, projects,
                           a.employee_id, a.start_date, a.end_date).available_hours
                          <= req[p].locals.available_hours

\* a window with hours left has been read, and four hours more on one of its
\* bookings would leave less
C15_Witness ==
    /\ last.op = "get_employee_availability_for_date_range"
    /\ last.result.status = "ok"
    /\ last.result.availability.available_hours > 0
    /\ \E b \in {x \in bookings : x.status # "cancelled"} :
          Round1(RangeAvailability(config, rules, reservations,
                     WithMoreBooked(bookings, b, 8), projects,
                     last.result.employee_id, last.result.start_date,
                     last.result.end_date).available_hours)
             < last.result.availability.available_hours
\* the stored bookings whose own range holds no working day
NoWorkingDayBookings(bks) ==
    {b \in bks : \A d \in b.start_date..b.end_date : weekday(d) \in Weekend}

\* C16: a booking whose own date range holds no working day contributes 0
\* hours to every window, and the availability-range endpoint, the admission
\* check and the dashboard answer without a division by zero: what they
\* report is what they report without the booking.
C16_NoWorkingDayBookingContributesZero ==
    \A b \in NoWorkingDayBookings(bookings) :
       LET r == last.result
       IN  /\ last.op = "get_employee_availability_for_date_range" =>
                /\ r.status # "ZeroDivisionError"
                /\ r.status = "ok" =>
                      r.availability =
                        RangeAvailabilityBody(
                            RangeAvailability(config, rules, reservations,
                                bookings \ {b}, projects,
                                r.employee_id, r.start_date, r.end_date))
           /\ last.op = "book_employee_for_project" =>
                /\ r.status # "ZeroDivisionError"
                /\ r.status = "insufficient_capacity" =>
                      r.detail =
                        CapacityError(r.request,
                            AdmissionAvailability(config, rules, reservations,
                                bookings \ {b}, projects, r.request.employee_id,
                                r.request.start_date, r.request.end_date))
           /\ \A p \in Procs : req[p].pc = "insert" =>
                req[p].locals.total_booked_hours =
                    AdmissionAvailability(config, rules, reservations,
                        req[p].seen \ {b}, projects, req[p].args.employee_id,
                        req[p].args.start_date, req[p].args.end_date).total_booked_hours
           /\ last.op = "get_resources_dashboard" =>
                /\ r.status = "ok"
                /\ \A e \in employees, m \in Months :
                      r.schedule[e][m] =
                        DashboardSchedule(reservations, bookings \ {b}, e, m)

\* the window of Friday 2024-01-05 and Saturday 2024-01-06 has been read
\* over a stored booking of exactly these two days
C16_Witness ==
    /\ NoWorkingDayBookings(bookings) # {}
    /\ last.op = "get_employee_availability_for_date_range"
    /\ last.result.status = "ok"
    /\ last.result.start_date = 5 /\ last.result.end_date = 6
    /\ last.result.availability.working_days = 0
    /\ last.result.availability.total_booked_hours = 0
\* C17: book_employee_for_project answers with a not-found error when the
\* project id or the employee id does not exist (the project is looked up
\* first), and that call leaves the bookings and the audit log as they were.
C17_UnknownProjectOrEmployeeNotFound ==
    [][(last'.op = "book_employee_for_project" /\ last' # last) =>
        LET a == last'.result.request
        IN  /\ a.project_id \notin projects
                  => last'.result.status = "project_not_found"
            /\ (a.project_id \in projects /\ a.employee_id \notin employees)
                  => last'.result.status = "employee_not_found"
            /\ last'.result.status \in {"project_not_found", "employee_not_found"}
                  => /\ bookings' = bookings
                     /\ audit' = audit
                     /\ (a.project_id \notin projects
                            \/ a.employee_id \notin employees)]_vars

\* a request for an existing project and an unknown employee has been
\* answered
C17_Witness ==
    /\ last.op = "book_employee_for_project"
    /\ last.result.status = "employee_not_found"
    /\ last.result.request.project_id \in projects
    /\ last.result.request.employee_id \notin employees
\* C18: a call of book_employee_for_project whose end_date is before its
\* start_date is answered with an invalid-range error, which is not the
\* capacity error, whatever the booked_hours, and the bookings and the audit
\* log stay as they were.
C18_ReversedRangeInvalid ==
    /\ (/\ last.op = "book_employee_for_project"
         /\ last.result.request.end_date < last.result.request.start_date)
           => last.result.status \in {"invalid_range", "validation_error"}
    /\ \A p \in Procs :
          (req[p].pc # "idle" /\ req[p].args.end_date < req[p].args.start_date)
             => bookings = req[p].seen /\ audit = <<>>
\* the reservations that are not cancelled
NotCancelled(res) == {r \in res : r.status # "cancelled"}

\* C19: cancelling a reservation changes only its status to 'cancelled' (the
\* row stays, with its dates and hours), and for as long as its status is
\* 'cancelled' the reservation contributes nothing to the availability-range
\* response, to the capacity check of a booking request and to the
\* dashboard, and does not block the creation of an overlapping reservation.
C19_CancelledReservationExcluded ==
    /\ [](LET r == last.result
               res == NotCancelled(reservations)
           IN  /\ (last.op = "get_employee_availability_for_date_range"
                      /\ r.status = "ok") =>
                     r.availability =
                       RangeAvailabilityBody(
                           RangeAvailability(config, rules, res, bookings, projects,
                               r.employee_id, r.start_date, r.end_date))
               /\ (last.op = "book_employee_for_project"
                      /\ r.status = "insufficient_capacity") =>
                     r.detail =
                       CapacityError(r.request,
                           AdmissionAvailability(config, rules, res, bookings, projects,
                               r.request.employee_id, r.request.start_date,
                               r.request.end_date))
               /\ (last.op = "get_resources_dashboard" /\ r.status = "ok") =>
                     \A e \in employees, m \in Months :
                        r.schedule[e][m] = DashboardSchedule(res, bookings, e, m)
               /\ \A c \in CancelCreateInputs :
                     CreateOutcome(config, reservations, 1, c[1], c[2], c[3])
                       = CreateOutcome(config, res, 1, c[1], c[2], c[3]))
    /\ [][\A id \in AllResIds :
            (CancelReservation(1, id) /\ last'.result = "ok") =>
               LET r == CHOOSE x \in reservations : x.id = id
               IN  /\ reservations' =
                       (reservations \ {r}) \cup {[r EXCEPT !.status = "cancelled"]}
                   /\ bookings' = bookings]_vars

\* a window has been read that a cancelled reservation of 2.0 hours a day
\* overlaps on a working day, and no reserved hours are reported
C19_Witness ==
    /\ last.op = "get_employee_availability_for_date_range"
    /\ last.result.status = "ok"
    /\ last.result.availability.total_reserved_hours = 0
    /\ \E r \in reservations :
          /\ r.status = "cancelled"
          /\ r.employee_id = last.result.employee_id
          /\ r.reserved_hours_per_day > 0
          /\ \E d \in r.start_date..r.end_date :
                /\ last.result.start_date <= d /\ d <= last.result.end_date
                /\ weekday(d) \notin Weekend

\* C19 as stated: once cancelled, a reservation contributes nothing from
\* then on, so in the next state too every window reads the same with and
\* without it
C19_CancelledFromThenOn ==
    [][\A r \in reservations : r.status = "cancelled" =>
         \A x \in reservations' : x.id = r.id =>
            \A w \in Ranges :
               get_active_reservations_for_date_range(reservations', x.employee_id,
                                                      w[1], w[2])
                 = get_active_reservations_for_date_range(reservations' \ {x},
                                                          x.employee_id, w[1], w[2])]_vars
\* C20: deleting an employee cascades, so every stored reservation and
\* every stored booking refers to an employee that exists.
C20_DeleteEmployeeCascades ==
    /\ \A r \in reservations : r.employee_id \in employees
    /\ \A b \in bookings : b.employee_id \in employees

(***************************************************************************)
(* Claims about the resources dashboard (SpecDash)                         *)
(***************************************************************************)
DashboardAnswered ==
    /\ last.op = "get_resources_dashboard"
    /\ last.result.status = "ok"

\* the employees the summary of month m counts: those with a row of m
CountedEmployees(m) ==
    {e \in employees : \E r \in schedules : r.employee_id = e /\ r.month = m}

\* C21: the total_capacity of a month is the sum, over the employees the
\* month counts, of each employee's own hours per day times days per month
\* under the effective rules (quarter hours)
C21_CapacityFromEffectiveRules ==
    DashboardAnswered =>
        \A m \in Months :
            last.result.monthly_summary[m].total_capacity =
                SumFn([e \in CountedEmployees(m) |->
                          get_settings_for_employee(config, rules, e).work_hours_per_day
                            * get_settings_for_employee(config, rules, e).work_days_per_month],
                      CountedEmployees(m))

\* C22: every month of the summary counts every employee of the
\* population, whatever schedule rows exist
C22_EveryEmployeeCounted ==
    DashboardAnswered =>
        \A m \in Months :
            last.result.monthly_summary[m].employee_count = Cardinality(employees)

\* the available_hours of the availability engine for employee e over the
\* calendar month m (half hours over WdLcm)
EngineMonthAvailable(e, m) ==
    RangeAvailability(config, rules, reservations, bookings, projects,
                      e, month_start(m), month_end(m)).available_hours

\* C23: the total_available of a month (twentieths of an hour) is the sum,
\* over the employees the month counts, of the engine's available_hours
\* with the calendar month as the window
C23_AvailableFromEngine ==
    DashboardAnswered =>
        \A m \in Months :
            last.result.monthly_summary[m].total_available * WdLcm =
                10 * SumFn([e \in CountedEmployees(m) |-> EngineMonthAvailable(e, m)],
                           CountedEmployees(m))


(***************************************************************************)
(* Claims about the audit log of a booking (SpecBook)                      *)
(***************************************************************************)
BookEmployeeEntries(aud) ==
    Cardinality({i \in DOMAIN aud : aud[i].action = "BOOK_EMPLOYEE"})

C25_DateFilterSelectsIntersecting ==
    \A e \in EmployeeIds, s \in Dates, t \in Dates :
        (/\ s <= t
         /\ \A b \in bookings : b.start_date <= b.end_date
         /\ \A r \in reservations : r.start_date <= r.end_date)
        => /\ ExistingBookings(bookings, projects, e, s, t)
                = {b \in bookings : /\ b.employee_id = e
                                    /\ b.project_id \in projects
                                    /\ b.status # "cancelled"
                                    /\ Intersects(b.start_date, b.end_date, s, t)}
           /\ RangeBookings(bookings, projects, e, s, t)
                = {b \in bookings : /\ b.employee_id = e
                                    /\ b.project_id \in projects
                                    /\ b.status # "cancelled"
                                    /\ Intersects(b.start_date, b.end_date, s, t)}
           /\ get_active_reservations_for_date_range(reservations, e, s, t)
                = {r \in reservations : /\ r.employee_id = e
                                        /\ r.status = "active"
                                        /\ Intersects(r.start_date, r.end_date, s, t)}

\* the availability of a window was answered with reserved hours while a
\* booking lies strictly inside the window (the third clause alone selects
\* it) and a reservation holds the start of the window and ends inside it
C25_Witness ==
    /\ last.op = "get_employee_availability_for_date_range"
    /\ last.result.status = "ok"
    /\ last.result.availability.total_reserved_hours > 0
    /\ \E b \in bookings :
          /\ b.status # "cancelled"
          /\ b.employee_id = last.result.employee_id
          /\ last.result.start_date < b.start_date
          /\ b.end_date < last.result.end_date
    /\ \E r \in reservations :
          /\ r.status = "active"
          /\ r.employee_id = last.result.employee_id
          /\ r.start_date <= last.result.start_date
          /\ last.result.start_date <= r.end_date
          /\ r.end_date < last.result.end_date


SerialRules ==
    {[e \in EmployeeIds |-> {}],
     [e \in EmployeeIds |-> IF e = 1 THEN {RuleRow({8}, {}, {})} ELSE {}]}

InitSerial ==
    /\ \E rls \in SerialRules : StoredTables({}, {}, rls)
    /\ schedules = UNION {initialize_schedule({}, e) : e \in EmployeeIds}

\* booking requests for employee 1: 3.0 hours on Thursday, 6.0 hours over
\* Thursday to Sunday, 12.0 hours on Sunday
SerialBookInputs ==
    {BookingArgs(1, 1, 4, 4, 6), BookingArgs(1, 1, 4, 7, 12),
     BookingArgs(1, 1, 7, 7, 24)}

\* one worker; a reservation is created only between two booking requests
NextSerial ==
    \/ \E a \in SerialBookInputs : BookCheck(1, a)
    \/ BookInsert(1)
    \/ \E e \in EmployeeIds, s \in Dates, t \in Dates, h \in ReservedInputs :
          req[1].pc # "insert" /\ CreateReservation(e, s, t, h)

SpecSerial == InitSerial /\ [][NextSerial]_vars

\* C27: for every employee and every window [s, t], the pro-rated booked
\* hours plus the reserved hours of the window do not exceed its working
\* days times the hours per working day of the employee
C27_NoWindowOverAllocated ==
    \A e \in employees, s \in Dates, t \in Dates :
        s <= t =>
            LET av == AdmissionAvailability(config, rules, reservations, bookings,
                                            projects, e, s, t)
            IN  av.total_booked_hours + av.total_reserved_hours
                    <= av.total_max_hours * WdLcm


(***************************************************************************)
(* SpecRoutes: the router of /api/projects.  A path is the sequence of its *)
(* segments after the prefix; the routes are tried in the order of their   *)
(* registration and the first whose method and path match takes the        *)
(* request.                                                                *)
(***************************************************************************)
Route(line, method, path, endpoint) ==
    [line |-> line, method |-> method, path |-> path, endpoint |-> endpoint]

\* the decorators of views/project_routes.py, in the order of the file
ProjectRoutes ==
    << Route(48, "POST", <<>>, "create_project"),
       Route(56, "GET", <<>>, "get_projects"),
       Route(72, "GET", <<"{project_id}">>, "get_project"),
       Route(83, "PUT", <<"{project_id}">>, "update_project"),
       Route(94, "DELETE", <<"{project_id}">>, "delete_project"),
       Route(102, "POST", <<"{project_id}", "bookings">>, "book_employee"),
       Route(110, "GET", <<"all-bookings">>, "get_all_bookings"),
       Route(160, "DELETE", <<"bookings", "{booking_id}">>, "delete_booking"),
       Route(179, "GET", <<"{project_id}", "bookings">>, "get_project_bookings"),
       Route(188, "GET", <<"available", "employees">>, "delete_booking"),
       Route(207, "GET", <<"available", "employees">>, "get_available_employees"),
       Route(216, "POST", <<"{project_id}", "attachments">>, "upload_attachment") >>

PathParams == {"{project_id}", "{booking_id}"}

\* a route matches a request of its method whose path has the same number
\* of segments and the same literal segments
RouteMatches(route, method, path) ==
    /\ route.method = method
    /\ Len(route.path) = Len(path)
    /\ \A k \in 1..Len(path) :
          route.path[k] \in PathParams \/ route.path[k] = path[k]

\* the route that takes the request: the first that matches
Dispatch(method, path) ==
    LET matching == {k \in DOMAIN ProjectRoutes :
                        RouteMatches(ProjectRoutes[k], method, path)}
    IN  ProjectRoutes[CHOOSE k \in matching : \A j \in matching : k <= j]

\* the body of both functions named delete_booking (lines 161-177 and
\* 189-205): 404 without the row, else the row is deleted
DeleteBookingOutcome(bks, booking_id) ==
    IF \E b \in bks : b.id = booking_id THEN "deleted" ELSE "not_found"

DeleteBookingRows(bks, booking_id) == {b \in bks : b.id # booking_id}

\* ProjectController.get_available_employees: the bookings of each employee
\* that the date filter selects for the window
AvailableEmployees(bks, emps, s, t) ==
    [e \in emps |->
        Cardinality({b \in bks : /\ b.employee_id = e
                                 /\ b.status # "cancelled"
                                 /\ SqlOverlap(b.start_date, b.end_date, s, t)})]

\* a query string: booking_id and the window, each given or not
Query(booking_id, window) == [booking_id |-> booking_id, window |-> window]

\* GET /api/projects/available/employees?...: the endpoint of the route
\* that takes the request binds its parameters from the query (422 when a
\* required one is missing) and runs
GetAvailableEmployeesRequest(q) ==
    LET route == Dispatch("GET", <<"available", "employees">>)
        status ==
            IF route.endpoint = "delete_booking"
            THEN IF q.booking_id = {} THEN "validation_error"
                 ELSE DeleteBookingOutcome(bookings, Val(q.booking_id))
            ELSE IF q.window = {} THEN "validation_error" ELSE "ok"
    IN  /\ bookings' = IF status = "deleted"
                       THEN DeleteBookingRows(bookings, Val(q.booking_id))
                       ELSE bookings
        /\ last' = Response("GET /api/projects/available/employees",
                       [query |-> q, route |-> route.line, status |-> status,
                        body |-> IF status = "ok"
                                 THEN AvailableEmployees(bookings, employees,
                                          Val(q.window)[1], Val(q.window)[2])
                                 ELSE <<>>])
        /\ UNCHANGED <<schema, config, rules, employees, projects, reservations, nextResId,
                       audit, schedules, req, cleared>>

\* DELETE /api/projects/bookings/{booking_id}
DeleteBookingRequest(booking_id) ==
    LET status == DeleteBookingOutcome(bookings, booking_id)
    IN  /\ bookings' = IF status = "deleted"
                       THEN DeleteBookingRows(bookings, booking_id) ELSE bookings
        /\ last' = Response("DELETE /api/projects/bookings/{booking_id}",
                       [booking_id |-> booking_id, route |-> 160, status |-> status])
        /\ UNCHANGED <<schema, config, rules, employees, projects, reservations, nextResId,
                       audit, schedules, req, cleared>>

\* stored bookings of employee 1 and employee 2
RouteBookingStores ==
    SUBSET {BookingRow(1, 1, 1, 4, 7, 8, "booked"),
            BookingRow(2, 1, 2, 4, 4, 8, "booked"),
            BookingRow(3, 1, 1, 7, 7, 8, "cancelled")}

InitRoutes ==
    \E bks \in RouteBookingStores : InitStored(bks, {}, [e \in EmployeeIds |-> {}])

\* query strings: with and without booking_id, with and without the dates
QueryInputs ==
    {Query(i, w) : i \in {{}, {1}, {2}, {3}, {4}}, w \in {{}, {<<4, 5>>}, {<<4, 7>>}}}

NextRoutes ==
    \/ \E q \in QueryInputs : GetAvailableEmployeesRequest(q)
    \/ \E i \in 1..4 : DeleteBookingRequest(i)

SpecRoutes == InitRoutes /\ [][NextRoutes]_vars

\* C28: a GET request to /api/projects/available/employees, with any query
\* parameters, leaves project_bookings as it was
C28_GetAvailableEmployeesReadOnly ==
    [][last'.op = "GET /api/projects/available/employees"
          => bookings' = bookings]_vars


(***************************************************************************)
(* SpecSchema: Database() on a database file of any earlier version, or    *)
(* on an empty one                                                         *)
(***************************************************************************)
\* the forms a table has had: not there, or with the columns of an
\* earlier or of the current statement
TableForms(t) ==
    {{}, {CreatedColumns[t]}}
    \cup (IF t = "projects"
          THEN {{CreatedColumns[t] \ {"business_unit", "priority"}},
                {MigratedSchema[t]}}
          ELSE IF t = "project_bookings" THEN {{MigratedSchema[t]}}
          ELSE IF t = "employee_reservations"
          THEN {{CreatedColumns[t] \cup {OldHoursCheck}}}
          ELSE IF t = "employee_schedules"
          THEN {{CreatedColumns[t] \cup {"available_hours_per_month", GeneratedColumn}}}
          ELSE {})

\* the database files: the tables "users", "audit_log" and
\* "employee_business_rules" all there or all missing, the others in any
\* of their forms
DatabaseFiles ==
    {[t \in {x \in TableNames : f[x] # {}} |-> Val(f[t])] :
        f \in {[t \in TableNames |->
                  CASE t = "employee_schedules" -> sch
                    [] t = "employee_reservations" -> res
                    [] t = "projects" -> prj
                    [] t = "project_bookings" -> bks
                    [] t = "employees" -> emp
                    [] OTHER -> IF oth THEN {CreatedColumns[t]} ELSE {}] :
                sch \in TableForms("employee_schedules"),
                res \in TableForms("employee_reservations"),
                prj \in TableForms("projects"),
                bks \in TableForms("project_bookings"),
                emp \in TableForms("employees"),
                oth \in BOOLEAN}}

\* a database file without rows
InitSchema ==
    /\ config = ShippedConfig
    /\ rules = [e \in EmployeeIds |-> {}]
    /\ employees = {}
    /\ projects = {}
    /\ reservations = {}
    /\ nextResId = 1
    /\ bookings = {}
    /\ audit = <<>>
    /\ req = [p \in Procs |-> IdleRequest]
    /\ last = NoResponse
    /\ cleared = [e \in EmployeeIds |-> "no"]
    /\ schedules = {}
    /\ \E sc \in DatabaseFiles : schema = sc

\* the construction of the Database singleton
InitDb ==
    /\ schema' = init_db(schema).schema
    /\ last' = Response("Database._init_db", init_db(schema).status)
    /\ UNCHANGED <<config, rules, employees, projects, reservations, nextResId,
                   bookings, audit, schedules, req, cleared>>

NextSchema == InitDb

SpecSchema == InitSchema /\ [][NextSchema]_vars

\* C29: on an empty database the initialisation completes without error
\* and leaves the eight tables present, and an initialisation that follows
\* a completed one completes and changes nothing
C29_InitFromEmptyCompletes ==
    [][last'.op = "Database._init_db" =>
          /\ DOMAIN schema = {} =>
                /\ last'.result = "ok"
                /\ DOMAIN schema' = TableNames
          /\ last = Response("Database._init_db", "ok") =>
                /\ last'.result = "ok"
                /\ schema' = schema]_vars


(***************************************************************************)
(* SpecSettings: sequences of update_settings and get_settings             *)
(***************************************************************************)
\* the values of the fields: 1, 7, 8 or 24 hours; 18.5, 20.0 or 22 days;
\* 1 or 11 months
RoundTripValues ==
    [work_hours_per_day |->
        {PyNumber(FALSE, 2), PyNumber(FALSE, 14), PyNumber(FALSE, 16),
         PyNumber(FALSE, 48)},
     work_days_per_month |->
        {PyNumber(TRUE, 37), PyNumber(TRUE, 40), PyNumber(FALSE, 44)},
     months_in_year |-> {PyNumber(FALSE, 2), PyNumber(FALSE, 22)}]

RoundTripInputs == PartialDicts(RoundTripValues)

NextSettings ==
    \/ \E s \in RoundTripInputs : UpdateSettings(s)
    \/ GetSettings

SpecSettings == InitBase /\ [][NextSettings]_vars

\* the value of field f that get_settings reports for the number n: hours
\* and days in halves, months a count
ReportedValue(f, n) == IF f = "months_in_year" THEN n.h \div 2 ELSE n.h

InitEngines ==
    \E bks \in AvailBookingStores, res \in StoredReservations, rls \in StoredRules :
        InitStored(bks, res, rls)

\* Thursday alone, Thursday to Saturday, Thursday to Sunday, Friday to
\* Sunday
EngineWindows == {<<4, 4>>, <<4, 6>>, <<4, 7>>, <<5, 7>>}

NextEngines ==
    \/ \E w \in EngineWindows : BookCheck(1, BookingArgs(1, 1, w[1], w[2], 8))
    \/ BookInsert(1)
    \/ \E w \in EngineWindows : GetAvailabilityRange(1, w[1], w[2])

SpecEngines == InitEngines /\ [][NextEngines]_vars

====
